---------------------------- MODULE Spec2Model ----------------------------
(***************************************************************************)
(* A model of the SplatViewer controller (src/src/SplatViewer.ts): the     *)
(* asset-load protocol, the morph clock / render-mode gate / transition    *)
(* bridge of updateAnimationUniforms, and the floating-bubble ("marker")   *)
(* subsystem.                                                              *)
(*                                                                         *)
(* Conventions.                                                            *)
(*  - The SplatViewer instance is the record sv; its fields keep the names *)
(*    of the class fields.  A method is an operator from the instance (and *)
(*    the inputs of the call) to the instance after the call.              *)
(*  - Time is performance.now() in whole milliseconds (variable now).      *)
(*  - A real number is a fixed-point integer in units of 1/One; the        *)
(*    arithmetic of the source is carried out in that unit, rounding down. *)
(*  - Math.random() is a draw k/RandDen with k in 0..RandDen-1.            *)
(*  - The 3-D position of a bubble is not modelled: what the projection of *)
(*    its position and the frame read-back yield in a tick are inputs of   *)
(*    that tick.                                                           *)
(***************************************************************************)
EXTENDS Integers, Sequences, FiniteSets, TLC

VARIABLES
  sv,        \* the SplatViewer instance (its fields)
  now,       \* performance.now(), ms
  loads,     \* the calls of load(): version -> where the async call stands
  viewers,   \* the Viewer objects created by load(): id -> created, dispose() calls
  disposeCall, \* the call of dispose(): "none", "awaitViewer", "done"
  gl,        \* what the renderer's frame read-back does: "ok", "none", "throws"
  calls,     \* the number of API calls and user events so far (history variable)
  lastOp     \* the operation that produced this state (history variable)

vars == <<sv, now, loads, viewers, disposeCall, gl, calls, lastOp>>

----------------------------------------------------------------------------
(* Fixed point *)

\* the fixed-point unit: 1.0
One == 100 * 100

Min(a, b) == IF a < b THEN a ELSE b
Max(a, b) == IF a > b THEN a ELSE b

\* Math.max(0, Math.min(1, t))
Clamp01(t) == Max(0, Min(One, t))

\* a * b for two fixed-point numbers
Mul(a, b) == (a * b) \div One

easeInOutCubic(t) ==
  LET x == Clamp01(t)
      y == 2 * One - 2 * x
  IN  IF 2 * x < One
        THEN Mul((4 * x * x) \div One, x)
        ELSE One - (Mul(Mul(y, y), y) \div 2)

\* x, edge0, edge1 in one unit (fixed point, or ms); the result is fixed point
smoothstep(edge0, edge1, x) ==
  IF edge0 = edge1
    THEN (IF x < edge0 THEN 0 ELSE One)
    ELSE LET t == Clamp01(((x - edge0) * One) \div (edge1 - edge0))
         IN  Mul(Mul(t, t), 3 * One - 2 * t)

mix(a, b, t) ==
  LET x == Clamp01(t)
  IN  (a * (One - x) + b * x) \div One

easeOutCubic(t) ==
  LET y == One - Clamp01(t)
  IN  One - Mul(Mul(y, y), y)

\* Math.exp(-x) for a fixed-point x in [0, 1], by its Taylor series
RECURSIVE ExpNegTerms(_, _, _)
ExpNegTerms(x, k, term) ==
  IF k > 8 \/ term = 0
    THEN 0
    ELSE LET next == (term * x) \div (k * One)
         IN  (IF k % 2 = 1 THEN (0 - next) ELSE next) + ExpNegTerms(x, k + 1, next)

ExpNeg(x) == One + ExpNegTerms(x, 1, One)

----------------------------------------------------------------------------
(* Program constants (fixed-point values are in units of 1/One, times in ms) *)

Infinity == 2000000000               \* Number.POSITIVE_INFINITY
morphLoopMs == 3200                  \* morphLoopSeconds = 3.2
pointCloudEnterMorph == 3800         \* 0.38
pointCloudExitMorph == 200           \* 0.02
modelRevealStartMorph == 3400        \* 0.34
modelRevealStartGain == 6200         \* 0.62
modelRevealStartScale == 8400        \* 0.84
luminanceBridgeDurationMs == 320     \* 0.32 s
scaleBridgeDurationMs == 280         \* 0.28 s
colorRisePerSecond == 3500           \* 0.35
colorFallPerSecond == 18000          \* 1.8
maxDtMs == 50                        \* the clamp of dt to 0.05 s
colorFollowMs == 180                 \* time constant 0.18 s
scaleFollowMs == 100                 \* time constant 0.1 s

NULL == "null"

\* customUniforms = null (a record, as the uniforms are)
NoUniforms == [null |-> TRUE]

----------------------------------------------------------------------------
(* setAnimation: the normalisation of the name.  A string is a sequence of *)
(* one-character strings.                                                  *)

UpperChars == <<"A","B","C","D","E","F","G","H","I","J","K","L","M",
                "N","O","P","Q","R","S","T","U","V","W","X","Y","Z">>
LowerChars == <<"a","b","c","d","e","f","g","h","i","j","k","l","m",
                "n","o","p","q","r","s","t","u","v","w","x","y","z">>
WhiteSpace == {" ", "\t", "\n"}

ToLowerChar(c) ==
  IF \E i \in 1..26 : UpperChars[i] = c
    THEN LowerChars[CHOOSE i \in 1..26 : UpperChars[i] = c]
    ELSE c

\* String.prototype.toLowerCase
ToLowerCase(str) == [i \in 1..Len(str) |-> ToLowerChar(str[i])]

RECURSIVE TrimStart(_)
TrimStart(str) ==
  IF str # <<>> /\ Head(str) \in WhiteSpace THEN TrimStart(Tail(str)) ELSE str

RECURSIVE TrimEnd(_)
TrimEnd(str) ==
  IF str # <<>> /\ str[Len(str)] \in WhiteSpace
    THEN TrimEnd(SubSeq(str, 1, Len(str) - 1))
    ELSE str

\* String.prototype.trim
Trim(str) == TrimEnd(TrimStart(str))

\* the own properties of the object literal `map`
AliasMap ==
  { << <<"n","o","n","e">>, "none" >>,
    << <<"o","f","f">>, "none" >>,
    << <<"z"," ","w","a","v","e">>, "zwave" >>,
    << <<"z","_","w","a","v","e">>, "zwave" >>,
    << <<"z","-","w","a","v","e">>, "zwave" >>,
    << <<"z","w","a","v","e">>, "zwave" >>,
    << <<"s","w","i","r","l">>, "swirl" >>,
    << <<"n","o","i","s","e">>, "noise" >>,
    << <<"b","r","e","a","t","h">>, "breath" >>,
    << <<"b","r","e","a","t","h","e">>, "breath" >>,
    << <<"e","x","p","l","o","d","e">>, "explode" >> }

\* `map` is an object literal: a key it does not own is looked up in
\* Object.prototype, whose properties are objects and functions (truthy)
ObjectPrototype ==
  { << <<"c","o","n","s","t","r","u","c","t","o","r">>, "function Object" >>,
    << <<"_","_","p","r","o","t","o","_","_">>, "Object.prototype" >>,
    << <<"t","o","S","t","r","i","n","g">>, "function toString" >>,
    << <<"v","a","l","u","e","O","f">>, "function valueOf" >>,
    << <<"h","a","s","O","w","n","P","r","o","p","e","r","t","y">>,
       "function hasOwnProperty" >> }

\* map[key]: the own property, else the inherited one, else undefined
MapLookup(key) ==
  IF \E e \in AliasMap : e[1] = key
    THEN (CHOOSE e \in AliasMap : e[1] = key)[2]
    ELSE IF \E e \in ObjectPrototype : e[1] = key
      THEN (CHOOSE e \in ObjectPrototype : e[1] = key)[2]
      ELSE "undefined"

\* String(mode || "none").toLowerCase().trim()
NormalizeName(name) ==
  Trim(ToLowerCase(IF name = <<>> THEN <<"n","o","n","e">> ELSE name))

\* map[normalized] || "none"
ResolveMode(name) ==
  LET found == MapLookup(NormalizeName(name))
  IN  IF found = "undefined" THEN "none" ELSE found

animationModeToInt(mode) ==
  CASE mode = "zwave" -> 1
    [] mode = "swirl" -> 2
    [] mode = "noise" -> 3
    [] mode = "breath" -> 4
    [] mode = "explode" -> 5
    [] OTHER -> 0

----------------------------------------------------------------------------
(* The morph clock, the render-mode gate and the transition bridge *)

\* this.viewer?.splatMesh: the mesh of the current viewer; a disposed viewer
\* has released its mesh
splatMesh(s) == s.viewer # 0 /\ viewers[s.viewer].disposals = 0

applyAnimationStyle(s, resetForTransition) ==
  IF ~splatMesh(s)
    THEN s
    ELSE IF s.animationMode = "none" \/ resetForTransition
      THEN [s EXCEPT !.pointCloudEnabled = FALSE]
      ELSE s

\* a clock whose phase is not wrapped into one loop
MorphClockNoWrap(mode, elapsedMs) ==
  IF mode = "none"
    THEN [phase |-> 0, dispersing |-> FALSE, morph |-> 0]
    ELSE LET phase == (elapsedMs * One) \div morphLoopMs
             triangle == IF 2 * phase < One THEN phase * 2 ELSE (One - phase) * 2
         IN  [phase |-> phase, dispersing |-> 2 * phase < One,
              morph |-> easeInOutCubic(triangle)]

\* phase, dispersing and morph at elapsedMs after animationStartTime
MorphClock(mode, elapsedMs) ==
  IF mode = "none"
    THEN [phase |-> 0, dispersing |-> FALSE, morph |-> 0]
    ELSE LET phase == ((elapsedMs % morphLoopMs) * One) \div morphLoopMs
             dispersing == 2 * phase < One
             triangle == IF 2 * phase < One THEN phase * 2 ELSE (One - phase) * 2
         IN  [phase |-> phase, dispersing |-> dispersing,
              morph |-> easeInOutCubic(triangle)]

\* a gate that opens as soon as the loop disperses, at any morph
TargetPointCloudNoThreshold(s, dispersing, morph) ==
  IF s.animationMode = "none" THEN FALSE
  ELSE IF dispersing THEN TRUE
  ELSE IF ~dispersing /\ morph <= pointCloudExitMorph THEN FALSE
  ELSE s.pointCloudEnabled

\* targetPointCloud as decided before the mesh is looked at
TargetPointCloud(s, dispersing, morph) ==
  IF s.animationMode = "none" THEN FALSE
  ELSE IF dispersing /\ morph >= pointCloudEnterMorph THEN TRUE
  ELSE IF ~dispersing /\ morph <= pointCloudExitMorph THEN FALSE
  ELSE s.pointCloudEnabled

InModelRevealWindow(mode, dispersing, morph) ==
  mode # "none" /\ ~dispersing /\ morph <= modelRevealStartMorph

\* targetScale
TargetScale(s, dispersing, morph, targetPointCloud) ==
  LET morphForScale == easeInOutCubic(morph)
      scaleGate == smoothstep(300, 1800, morph)
      reassemblyFill == IF ~dispersing THEN One - smoothstep(0, 2800, morph) ELSE 0
      targetScaleRaw ==
        IF s.animationMode = "none"
          THEN One
          ELSE One + Mul(Mul(2200, morphForScale), scaleGate) + Mul(2600, reassemblyFill)
      handoffToModel ==
        IF s.animationMode = "none"
          THEN One
          ELSE One - smoothstep(pointCloudExitMorph + 200, pointCloudExitMorph + 1400, morph)
      targetScaleBase == mix(targetScaleRaw, One, handoffToModel)
  IN  IF s.isMobileLike /\ targetPointCloud
        THEN Mul(targetScaleBase, 11800)
        ELSE targetScaleBase

\* colorGainTarget
ColorGainTarget(mode, dispersing, morph) ==
  LET pointCloudBlend ==
        IF mode = "none" THEN 0
        ELSE IF dispersing
          THEN smoothstep(pointCloudEnterMorph - 1400, pointCloudEnterMorph + 400, morph)
          ELSE smoothstep(0, 1600, morph)
      convergence == One - smoothstep(0, 2400, morph)
      modelGain == One - Mul(800, convergence)
      particleGain == 12000 + Mul(1400, convergence)
  IN  IF mode = "none" THEN One ELSE mix(modelGain, particleGain, pointCloudBlend)

\* a switch that stores the target and leaves the bridges alone
SwitchRepresentationUnarmed(s, inModelRevealWindow, dispersing, morph, target0) ==
  IF ~splatMesh(s)
    THEN s
    ELSE
      LET targetPointCloud ==
            IF inModelRevealWindow THEN FALSE
            ELSE IF ~dispersing /\ morph <= pointCloudExitMorph + 300 THEN FALSE
            ELSE target0
      IN  [s EXCEPT !.pointCloudEnabled = targetPointCloud]

\* a switch that waits for the exit threshold, without the reveal window
SwitchRepresentationExitOnly(s, inModelRevealWindow, dispersing, morph, target0) ==
  IF ~splatMesh(s)
    THEN s
    ELSE
      LET targetPointCloud ==
            IF ~dispersing /\ morph <= pointCloudExitMorph + 300 THEN FALSE
            ELSE target0
          armed ==
            IF s.pointCloudEnabled /\ ~targetPointCloud
              THEN [s EXCEPT !.luminanceBridgeActive = TRUE,
                             !.luminanceBridgeFrom = s.colorGainApplied,
                             !.luminanceBridgeElapsed = 0,
                             !.scaleBridgeActive = TRUE,
                             !.scaleBridgeFrom = Min(s.scaleApplied, 9000),
                             !.scaleBridgeElapsed = 0]
              ELSE s
      IN  [armed EXCEPT !.pointCloudEnabled = targetPointCloud]

\* lines 567-592: the switch of the representation, arming the bridges
SwitchRepresentation(s, inModelRevealWindow, dispersing, morph, target0) ==
  IF ~splatMesh(s)
    THEN s
    ELSE
      LET targetPointCloud ==
            IF inModelRevealWindow THEN FALSE
            ELSE IF ~dispersing /\ morph <= pointCloudExitMorph + 300 THEN FALSE
            ELSE target0
          armed ==
            IF s.pointCloudEnabled /\ ~targetPointCloud
              THEN [s EXCEPT !.luminanceBridgeActive = TRUE,
                             !.luminanceBridgeFrom = s.colorGainApplied,
                             !.luminanceBridgeElapsed = 0,
                             !.scaleBridgeActive = TRUE,
                             !.scaleBridgeFrom = Min(s.scaleApplied, 9000),
                             !.scaleBridgeElapsed = 0]
              ELSE s
      IN  [armed EXCEPT !.pointCloudEnabled = targetPointCloud]

\* a desiredScale whose reveal window leaves the scale bridge as it is
DesiredScaleKeepBridge(s, inModelRevealWindow, modelRevealBlend, targetScale, dtMs) ==
  IF inModelRevealWindow
    THEN << s, mix(modelRevealStartScale, One, modelRevealBlend) >>
  ELSE IF s.animationMode = "none"
    THEN << [s EXCEPT !.scaleBridgeActive = FALSE], One >>
  ELSE IF s.scaleBridgeActive
    THEN LET elapsed == s.scaleBridgeElapsed + dtMs
             pScale == smoothstep(0, scaleBridgeDurationMs, elapsed)
         IN  << [s EXCEPT !.scaleBridgeElapsed = elapsed,
                          !.scaleBridgeActive = (pScale < One)],
                mix(s.scaleBridgeFrom, One, pScale) >>
  ELSE << s, targetScale >>

\* lines 594-608: desiredScale and the scale bridge; <<instance, desiredScale>>
DesiredScale(s, inModelRevealWindow, modelRevealBlend, targetScale, dtMs) ==
  IF inModelRevealWindow
    THEN << [s EXCEPT !.scaleBridgeActive = FALSE],
            mix(modelRevealStartScale, One, modelRevealBlend) >>
  ELSE IF s.animationMode = "none"
    THEN << [s EXCEPT !.scaleBridgeActive = FALSE], One >>
  ELSE IF s.scaleBridgeActive
    THEN LET elapsed == s.scaleBridgeElapsed + dtMs
             pScale == smoothstep(0, scaleBridgeDurationMs, elapsed)
         IN  << [s EXCEPT !.scaleBridgeElapsed = elapsed,
                          !.scaleBridgeActive = (pScale < One)],
                mix(s.scaleBridgeFrom, One, pScale) >>
  ELSE << s, targetScale >>

\* lines 610-627: desiredColorGain and the luminance bridge
DesiredColorGain(s, inModelRevealWindow, modelRevealBlend, colorGainTarget, dtMs) ==
  IF inModelRevealWindow
    THEN << [s EXCEPT !.luminanceBridgeActive = FALSE],
            mix(modelRevealStartGain, One, easeOutCubic(modelRevealBlend)) >>
  ELSE IF s.animationMode = "none"
    THEN << [s EXCEPT !.luminanceBridgeActive = FALSE], One >>
  ELSE IF s.luminanceBridgeActive
    THEN LET elapsed == s.luminanceBridgeElapsed + dtMs
             p == easeOutCubic(smoothstep(0, luminanceBridgeDurationMs, elapsed))
         IN  << [s EXCEPT !.luminanceBridgeElapsed = elapsed,
                          !.luminanceBridgeActive = (p < One)],
                mix(s.luminanceBridgeFrom, One, p) >>
  ELSE << s, colorGainTarget >>

\* a follow of the desired gain without the rate limit
FollowColorGainUnlimited(applied, desired, dtMs) ==
  applied + ((desired - applied) * (One - ExpNeg((dtMs * One) \div colorFollowMs))) \div One

\* lines 629-641: exponential follow of the desired gain, rate limited
FollowColorGain(applied, desired, dtMs) ==
  LET colorFollow == One - ExpNeg((dtMs * One) \div colorFollowMs)
      colorFollowTarget == applied + ((desired - applied) * colorFollow) \div One
      colorStep == colorFollowTarget - applied
      maxRiseStep == (colorRisePerSecond * dtMs) \div 1000
      maxFallStep == (colorFallPerSecond * dtMs) \div 1000
  IN  IF colorStep > maxRiseStep THEN applied + maxRiseStep
      ELSE IF colorStep < 0 - maxFallStep THEN applied - maxFallStep
      ELSE colorFollowTarget

\* a follow that goes three times the way, past the desired scale
FollowScaleOvershoot(applied, desired, dtMs) ==
  applied + 3 * (((desired - applied) * (One - ExpNeg((dtMs * One) \div scaleFollowMs))) \div One)

\* line 642
FollowScale(applied, desired, dtMs) ==
  LET scaleFollow == One - ExpNeg((dtMs * One) \div scaleFollowMs)
  IN  applied + ((desired - applied) * scaleFollow) \div One

updateAnimationUniforms(s, nowMs) ==
  IF s.customUniforms = NoUniforms
    THEN s
    ELSE
      LET elapsedMs == nowMs - s.animationStartTime
          dtMs == Min(Max(nowMs - s.lastUniformUpdateTimeMs, 0), maxDtMs)
          clock == MorphClock(s.animationMode, elapsedMs)
          morph == clock.morph
          dispersing == clock.dispersing
          target0 == TargetPointCloud(s, dispersing, morph)
          inModelRevealWindow == InModelRevealWindow(s.animationMode, dispersing, morph)
          modelRevealBlend ==
            IF inModelRevealWindow
              THEN One - smoothstep(0, modelRevealStartMorph, morph)
              ELSE 0
          targetScale == TargetScale(s, dispersing, morph, target0)
          colorGainTarget == ColorGainTarget(s.animationMode, dispersing, morph)
          s1 == [s EXCEPT !.lastUniformUpdateTimeMs = nowMs]
          s2 == SwitchRepresentation(s1, inModelRevealWindow, dispersing, morph, target0)
          ds == DesiredScale(s2, inModelRevealWindow, modelRevealBlend, targetScale, dtMs)
          dg == DesiredColorGain(ds[1], inModelRevealWindow, modelRevealBlend,
                                 colorGainTarget, dtMs)
          s3 == dg[1]
          gain == FollowColorGain(s3.colorGainApplied, dg[2], dtMs)
      IN  [s3 EXCEPT
             !.colorGainApplied = gain,
             !.scaleApplied = FollowScale(s3.scaleApplied, ds[2], dtMs),
             !.customUniforms =
               [time |-> elapsedMs,
                mode |-> animationModeToInt(s.animationMode),
                morph |-> morph,
                colorGain |-> gain,
                strength |-> IF s.animationMode = "none" THEN 0
                             ELSE 3500 + Mul(6500, morph)]]

\* a setAnimation that lets the morph clock run on (without line 279)
setAnimationKeepClock(s, name, nowMs) ==
  LET mode == ResolveMode(name)
      s1 == [s EXCEPT !.animationMode = mode,
                      !.lastUniformUpdateTimeMs = nowMs]
      s2 == IF mode = "none"
              THEN [s1 EXCEPT !.colorGainApplied = One,
                              !.scaleApplied = One,
                              !.luminanceBridgeActive = FALSE,
                              !.scaleBridgeActive = FALSE]
              ELSE s1
  IN  updateAnimationUniforms(applyAnimationStyle(s2, TRUE), nowMs)

\* a setAnimation without the reset of lines 281-286
setAnimationWithoutReset(s, name, nowMs) ==
  updateAnimationUniforms(
    applyAnimationStyle([s EXCEPT !.animationMode = ResolveMode(name),
                                  !.animationStartTime = nowMs,
                                  !.lastUniformUpdateTimeMs = nowMs], TRUE),
    nowMs)

\* lines 278-288 of setAnimation
setAnimation(s, name, nowMs) ==
  LET mode == ResolveMode(name)
      s1 == [s EXCEPT !.animationMode = mode,
                      !.animationStartTime = nowMs,
                      !.lastUniformUpdateTimeMs = nowMs]
      s2 == IF mode = "none"
              THEN [s1 EXCEPT !.colorGainApplied = One,
                              !.scaleApplied = One,
                              !.luminanceBridgeActive = FALSE,
                              !.scaleBridgeActive = FALSE]
              ELSE s1
  IN  updateAnimationUniforms(applyAnimationStyle(s2, TRUE), nowMs)

----------------------------------------------------------------------------
(* Floating bubbles (markers): constants *)

maxFloatingBubbles == 18
mobileMaxFloatingBubbles == 11
lowMobileMaxFloatingBubbles == 7
lowDesktopMaxFloatingBubbles == 12
bubbleLifeMinMs == 3400
bubbleLifeMaxMs == 5600
bubbleSpawnMinGapMs == 230
bubbleSpawnMaxGapMs == 520
textBubbleSpawnPercent == 42         \* textBubbleSpawnProbability = 0.42
maxTextBubbles == 6
bubbleNoOverlapPushMaxTries == 12
bubbleOverlapCheckIntervalDesktopMs == 36
bubbleOverlapCheckIntervalMobileMs == 120
lowBubbleTickIntervalMs == 28
firstSpawnDelayMs == 320             \* performance.now() + 320
bubbleMaxAlpha == 5600               \* maxAlpha: 0.56
alphaThreshold == 14                 \* alpha > 14

\* the bounds of the model
MaxNow == 6000          \* the clock stops here
MaxLoads == 2           \* calls of load()
MaxIds == 19            \* bubbles created in one run, in every specification
MaxSpawns == 3          \* bubbles created in one run of Spec
MaxBursts == 2          \* dust bursts of one bubble
RandDen == 2            \* Math.random() is k / RandDen, k in 0..RandDen-1
MaxCalls == 4           \* API calls and user events in one run of Spec
FrameGapMs == 1500      \* the time between two frames in Spec
MaxCallsBubbles == 5    \* API calls and user events in one run of SpecBubbles
MaxSpawnsBubbles == 2   \* bubbles created in one run of SpecBubbles
LongGapMs == 1900       \* the time between two frames in SpecBubbles
ShortGapMs == 20        \* ... and between a user event and the frame after it
MaxCallsCapacity == 3   \* API calls and user events in one run of SpecCapacity
CapacityGapMs == 120    \* the time between two frames in SpecCapacity
MaxCallsAnim == 3       \* API calls in one run of SpecAnim
AnimGapMs == 400        \* the time between two frames in SpecAnim
MaxCallsMode == 2       \* calls of setAnimation in one run of SpecMode
MaxCallsMorph == 2      \* API calls in one run of SpecMorph
MorphGapMs == 200       \* the time between two frames in SpecMorph
MaxCallsProbe == 3      \* API calls in one run of SpecProbe
MaxCallsSwitch == 3     \* API calls in one run of SpecSwitch
MaxCallsThrows == 4     \* API calls in one run of SpecThrows
MaxCallsEvict == 5      \* API calls and user events in one run of SpecEvict
MaxCallsInterval == 3   \* API calls in one run of SpecInterval
ProbeGapMs == 23        \* the time between two frames in SpecInterval
ProbeHorizonMs == 1200  \* the time of the last frame in SpecInterval
MaxCallsSchedule == 4   \* API calls and user events in one run of SpecSchedule
ScheduleGapMs == 46     \* the time between two frames in SpecSchedule
ScheduleHorizonMs == 920 \* the time of the last frame in SpecSchedule
MaxCallsRange == 3      \* API calls in one run of SpecRange
RangeGapMs == 500       \* the time between two frames of the first loop in SpecRange
RangeHorizonMs == 22000 \* the time of the last frame in SpecRange
MaxCallsKernel == 2     \* API calls in one run of SpecKernel
KernelGapMs == 400      \* the time between two frames in SpecKernel
KernelHorizonMs == 3200 \* the time of the last frame in SpecKernel
MaxCallsStall == 3      \* API calls in one run of SpecStall
StallStepMs == 400      \* the time between two frames in SpecStall
StallGapMs == 1800      \* ... and between two frames with a stall between them
StallHorizonMs == 5200  \* the time of the last frame in SpecStall
MaxCallsPage == 2       \* user and layout events in one run of SpecPage
FastFrameMs == 17       \* the time between two frames of a fast second in SpecPage
SlowFrameMs == 500      \* ... and of a slow second
PageHorizonMs == 3100   \* the time of the last frame in SpecPage

BubbleIds == 1..MaxIds

----------------------------------------------------------------------------
(* Floating bubbles: the methods *)

getActiveMaxFloatingBubbles(s) ==
  IF s.performanceLevel = "low"
    THEN (IF s.isMobileLike THEN lowMobileMaxFloatingBubbles
                            ELSE lowDesktopMaxFloatingBubbles)
    ELSE (IF s.isMobileLike THEN mobileMaxFloatingBubbles ELSE maxFloatingBubbles)

resetFloatingBubbles(s, scheduleNext, nowMs) ==
  [s EXCEPT !.activeTextBubble = 0,
            !.floatingBubbles = <<>>,
            !.nextBubbleSpawnMs =
               IF scheduleNext /\ s.bubbleLayer # NULL
                 THEN nowMs + firstSpawnDelayMs
                 ELSE Infinity]

\* the gap of scheduleNextBubble in ms, rounded up (the clock is in whole
\* ms); gapDraw is the Math.random() draw
SpawnGapMs(s, gapDraw) ==
  LET perfGapFactor == IF s.performanceLevel = "low" THEN 128 ELSE 100
      mobileGapFactor == IF s.isMobileLike THEN 120 ELSE 100
      \* minGap, maxGap in units of 1/10000 ms
      minGap == bubbleSpawnMinGapMs * mobileGapFactor * perfGapFactor
      maxGap == bubbleSpawnMaxGapMs * (IF s.isMobileLike THEN 130 ELSE 100) * perfGapFactor
      gap == minGap + (gapDraw * Max(maxGap - minGap, 10000)) \div RandDen
  IN  (gap + 9999) \div 10000

\* a gap with no least value: the draw times maxGap
scheduleNextBubbleNoMin(s, nowMs, gapDraw) ==
  LET maxGap == bubbleSpawnMaxGapMs * (IF s.isMobileLike THEN 130 ELSE 100)
                  * (IF s.performanceLevel = "low" THEN 128 ELSE 100)
  IN  [s EXCEPT !.nextBubbleSpawnMs = nowMs + ((gapDraw * maxGap) \div RandDen + 9999) \div 10000]

scheduleNextBubble(s, nowMs, gapDraw) ==
  [s EXCEPT !.nextBubbleSpawnMs = nowMs + SpawnGapMs(s, gapDraw)]

\* spawnDustBurst: one more burst element in the layer, for bubble id
spawnDustBurst(s, id) ==
  IF s.bubbleLayer = NULL
    THEN s
    ELSE [s EXCEPT !.dust[id] = @ + 1]

\* the bubble object: its fields are mutated even when it is no longer in the list
DissipateEntry(b, nowMs) ==
  [b EXCEPT !.open = FALSE, !.opacity = 0, !.pointerEvents = "none",
            !.spawnMs = nowMs - b.lifeMs - 1]

dissipateBubble(s, id, nowMs) ==
  LET s1 == spawnDustBurst(s, id)
  IN  [s1 EXCEPT
         !.floatingBubbles =
            [i \in 1..Len(s.floatingBubbles) |->
               IF s.floatingBubbles[i].id = id
                 THEN DissipateEntry(s.floatingBubbles[i], nowMs)
                 ELSE s.floatingBubbles[i]],
         !.activeTextBubble = IF s.activeTextBubble = id THEN 0 ELSE @]

dismissActiveTextBubble(s, nowMs, gapDraw) ==
  IF s.activeTextBubble = 0
    THEN s
    ELSE LET s1 == [dissipateBubble(s, s.activeTextBubble, nowMs)
                      EXCEPT !.activeTextBubble = 0]
         IN  IF s1.bubbleLayer # NULL /\ s1.bubblesEnabledForModel
               THEN scheduleNextBubble(s1, nowMs, gapDraw)
               ELSE s1

\* the loop of activateTextBubble over the other bubbles, from index i on
RECURSIVE DissipateOthers(_, _, _, _)
DissipateOthers(s, id, nowMs, i) ==
  IF i > Len(s.floatingBubbles)
    THEN s
    ELSE DissipateOthers(
           IF s.floatingBubbles[i].id # id
             THEN dissipateBubble(s, s.floatingBubbles[i].id, nowMs)
             ELSE s,
           id, nowMs, i + 1)

\* an activation that leaves the bubble that was active to the loop over the others
KeepPreviousActive(s, id, nowMs) == s

\* lines 768-771: the bubble that was active is dissipated first
DissipatePreviousActive(s, id, nowMs) ==
  IF s.activeTextBubble # 0 /\ s.activeTextBubble # id
    THEN [dissipateBubble(s, s.activeTextBubble, nowMs) EXCEPT !.activeTextBubble = 0]
    ELSE s

\* lines 773-775
OpenEntry(s, id) ==
  [s EXCEPT
     !.activeTextBubble = id,
     !.floatingBubbles =
        [i \in 1..Len(s.floatingBubbles) |->
           IF s.floatingBubbles[i].id = id
             THEN [s.floatingBubbles[i] EXCEPT !.revealUntilMs = Infinity, !.open = TRUE]
             ELSE s.floatingBubbles[i]]]

\* an activation that leaves the scheduled spawn time alone (without line 782)
activateTextBubbleKeepSchedule(s, id, nowMs) ==
  DissipateOthers(OpenEntry(DissipatePreviousActive(s, id, nowMs), id), id, nowMs, 1)

activateTextBubble(s, id, nowMs) ==
  LET s1 == DissipatePreviousActive(s, id, nowMs)
      s2 == OpenEntry(s1, id)
      s3 == DissipateOthers(s2, id, nowMs, 1)
  IN  [s3 EXCEPT !.nextBubbleSpawnMs = Infinity]

\* a read-back that takes a failed read for an opaque pixel
readRenderAlphaFailClosed(pixels, i) ==
  IF gl = "throws" THEN 255 ELSE pixels[i]

\* readRenderAlpha for sample offset i; pixels[i] is the alpha the frame
\* holds there.  A read that throws is caught and yields 0.
readRenderAlpha(pixels, i) ==
  IF gl = "throws" THEN 0 ELSE pixels[i]

\* the number of sample offsets
SampleCount(s) ==
  IF s.performanceLevel = "low" \/ s.isMobileLike THEN 5 ELSE 9

isModelPixelCovered(s, pixels) ==
  IF gl = "none"
    THEN FALSE
    ELSE \E i \in 1..SampleCount(s) : readRenderAlpha(pixels, i) > alphaThreshold

\* pushBubbleOutsideModel: the outward displacement it applies, in half push
\* steps.  place.onScreen: the projection of the position is inside the clip
\* bounds; place.coveredTries: how many successive probes find the frame
\* opaque (pixels: what they read)
pushBubbleOutsideModel(s, place) ==
  LET maxPushTries == IF s.isMobileLike THEN Min(bubbleNoOverlapPushMaxTries, 6)
                                        ELSE bubbleNoOverlapPushMaxTries
      activeMaxPushTries == IF s.performanceLevel = "low" THEN Min(maxPushTries, 4)
                                                        ELSE maxPushTries
      covered == isModelPixelCovered(s, place.pixels)
  IN  IF ~place.onScreen \/ ~covered \/ place.coveredTries = 0
        THEN 0
        ELSE IF place.coveredTries < activeMaxPushTries
          THEN 2 * place.coveredTries
          ELSE 2 * activeMaxPushTries + 3

\* a count that finds no text bubble
TextCountNone(bubbles) == 0 * Len(bubbles)

TextCount(bubbles) ==
  Cardinality({i \in 1..Len(bubbles) : bubbles[i].kind = "text"})

\* rnd: the Math.random() draws (numerators over RandDen)
spawnFloatingBubble(s, nowMs, rnd, place) ==
  IF s.bubbleLayer = NULL
    THEN s
    ELSE
      LET canSpawnText ==
            /\ Len(s.bubbleMessages) > 0
            /\ TextCount(s.floatingBubbles) < maxTextBubbles
            /\ rnd.kind * 100 < textBubbleSpawnPercent * RandDen
          bubble ==
            [id |-> s.bubbleSeq + 1,
             kind |-> IF canSpawnText THEN "text" ELSE "plain",
             pushed |-> pushBubbleOutsideModel(s, place),
             spawnMs |-> nowMs,
             lifeMs |-> bubbleLifeMinMs
                        + (rnd.life * (bubbleLifeMaxMs - bubbleLifeMinMs)) \div RandDen,
             revealUntilMs |-> 0,
             open |-> FALSE,
             opacity |-> One,
             pointerEvents |-> "auto",
             overModel |-> FALSE,
             lastOverlapCheckMs |-> 0]
          pushed == Append(s.floatingBubbles, bubble)
      IN  [s EXCEPT
             !.bubbleSeq = @ + 1,
             !.lastSpawnMs = nowMs,
             !.floatingBubbles =
                IF Len(pushed) > getActiveMaxFloatingBubbles(s) THEN Tail(pushed) ELSE pushed]

\* a probe that is due in every tick
ActiveOverlapCheckIntervalNone(s) == 0 * Len(s.floatingBubbles)

\* the interval between two occlusion probes of a bubble, in tenths of a ms
ActiveOverlapCheckIntervalTenths(s) ==
  LET overlapCheckInterval ==
        IF s.isMobileLike THEN bubbleOverlapCheckIntervalMobileMs
                          ELSE bubbleOverlapCheckIntervalDesktopMs
  IN  IF s.performanceLevel = "low" THEN overlapCheckInterval * 19
                                    ELSE overlapCheckInterval * 10

\* an expiry that does not spare the active bubble
ExpiredAlsoActive(s, b, nowMs) ==
  ((nowMs - b.spawnMs) * One) \div b.lifeMs >= One

\* lines 936-942: the bubble is dropped from the list in this tick
Expired(s, b, nowMs) ==
  ((nowMs - b.spawnMs) * One) \div b.lifeMs >= One /\ b.id # s.activeTextBubble

\* lines 944-1060 for one bubble that stays; v is what the camera and the
\* frame give for it in this tick: v.inViewport, v.edgeFade, v.pixels
UpdateEntry(s, b, nowMs, v) ==
  LET lifeRatio == ((nowMs - b.spawnMs) * One) \div b.lifeMs
      alpha == Mul(bubbleMaxAlpha, smoothstep(0, 7800, lifeRatio))
      closed == IF b.id # s.activeTextBubble /\ nowMs > b.revealUntilMs
                  THEN FALSE ELSE b.open
  IN  IF ~v.inViewport \/ alpha <= 200
        THEN [b EXCEPT !.opacity = 0, !.pointerEvents = "none", !.open = closed]
        ELSE
          LET probe == 10 * (nowMs - b.lastOverlapCheckMs)
                         >= ActiveOverlapCheckIntervalTenths(s)
              overModel == IF probe THEN isModelPixelCovered(s, v.pixels) ELSE b.overModel
              b1 == [b EXCEPT !.overModel = overModel,
                              !.lastOverlapCheckMs = IF probe THEN nowMs ELSE @]
              finalAlpha == Mul(alpha, v.edgeFade)
          IN  IF overModel \/ finalAlpha <= 200
                THEN [b1 EXCEPT !.opacity = 0, !.pointerEvents = "none"]
                ELSE [b1 EXCEPT !.opacity = ((finalAlpha + 5) \div 10) * 10,
                                !.pointerEvents = IF finalAlpha > 800 THEN "auto" ELSE "none",
                                !.open = closed]

\* a loop that a read-back that throws brings to an end: no bubble is updated
UpdateEntriesAbortOnThrow(s, bubbles, nowMs, view) ==
  IF gl = "throws"
    THEN bubbles
    ELSE LET kept == SelectSeq(bubbles, LAMBDA b : ~Expired(s, b, nowMs))
         IN  [i \in 1..Len(kept) |-> UpdateEntry(s, kept[i], nowMs, view[kept[i].id])]

RECURSIVE UpdateEntries(_, _, _, _)
UpdateEntries(s, bubbles, nowMs, view) ==
  IF bubbles = <<>>
    THEN <<>>
    ELSE LET b == Head(bubbles)
             rest == UpdateEntries(s, Tail(bubbles), nowMs, view)
         IN  IF Expired(s, b, nowMs)
               THEN rest
               ELSE <<UpdateEntry(s, b, nowMs, view[b.id])>> \o rest

\* line 905: the bubble update runs at all
BubblesRunning(s) == s.bubbleLayer # NULL /\ s.bubblesEnabledForModel

\* a throttle that does not look at the performance level
BubbleTickDueAnyLevel(s, nowMs) ==
  ~(nowMs - s.lastBubbleTickMs < lowBubbleTickIntervalMs)

\* lines 910-915: the low-performance throttle lets this tick through
BubbleTickDue(s, nowMs) ==
  ~(s.performanceLevel = "low" /\ nowMs - s.lastBubbleTickMs < lowBubbleTickIntervalMs)

\* lines 918-922
SpawnDue(s, nowMs) ==
  /\ s.activeTextBubble = 0
  /\ Len(s.floatingBubbles) < getActiveMaxFloatingBubbles(s)
  /\ nowMs >= s.nextBubbleSpawnMs

updateFloatingBubbles(s, nowMs, rnd, place, view) ==
  IF ~BubblesRunning(s) \/ ~BubbleTickDue(s, nowMs)
    THEN s
    ELSE
      LET s1 == [s EXCEPT !.lastBubbleTickMs = nowMs]
          s2 == IF SpawnDue(s1, nowMs)
                  THEN scheduleNextBubble(spawnFloatingBubble(s1, nowMs, rnd, place),
                                          nowMs, rnd.gap)
                  ELSE s1
      IN  [s2 EXCEPT !.floatingBubbles = UpdateEntries(s2, s2.floatingBubbles, nowMs, view)]

\* a tick in which a bubble would be created
WouldSpawn(s, nowMs) ==
  BubblesRunning(s) /\ BubbleTickDue(s, nowMs) /\ SpawnDue(s, nowMs)

setFloatingBubbles(s, layer, messages, nowMs) ==
  LET s1 == resetFloatingBubbles(s, FALSE, nowMs)
      trimmed == [i \in 1..Len(messages) |-> Trim(messages[i])]
  IN  [s1 EXCEPT
         !.bubbleLayer = layer,
         !.bubbleMessages = SelectSeq(trimmed, LAMBDA m : Len(m) > 0),
         !.nextBubbleSpawnMs =
            IF layer # NULL /\ s1.bubblesEnabledForModel
              THEN nowMs + firstSpawnDelayMs
              ELSE Infinity]

\* an eviction that removes the bubbles spawned last
EvictNewest(bubbles, limit) ==
  IF Len(bubbles) > limit THEN SubSeq(bubbles, 1, limit) ELSE bubbles

RECURSIVE EvictOldest(_, _)
\* a performance change that evicts nothing
EvictNone(bubbles, limit) == bubbles

EvictOldest(bubbles, limit) ==
  IF Len(bubbles) > limit THEN EvictOldest(Tail(bubbles), limit) ELSE bubbles

setPerformanceLevel(s, level) ==
  IF s.performanceLevel = level
    THEN s
    ELSE LET s1 == [s EXCEPT !.performanceLevel = level]
         IN  [s1 EXCEPT !.floatingBubbles =
                          EvictOldest(@, getActiveMaxFloatingBubbles(s1))]

\* update(): lines 322-336
update(s, nowMs, rnd, place, view) ==
  IF s.disposed
    THEN s
    ELSE updateFloatingBubbles(updateAnimationUniforms(s, nowMs), nowMs, rnd, place, view)

----------------------------------------------------------------------------
(* load() and dispose(): the async calls, one step per stretch between awaits *)

\* a staleness test that forgets the load version (what line 237 guards against)
IsStaleLoadDisposedOnly(s, v) == s.disposed

\* a staleness test that forgets dispose()
IsStaleLoadVersionOnly(s, v) == v # s.loadVersion

\* line 238: the result of a load that was overtaken, or outlived the
\* instance, is dropped
IsStaleLoad(s, v) == s.disposed \/ v # s.loadVersion

\* the uniforms installCustomAnimationKernel adds to a fresh material
FreshUniforms == [time |-> 0, mode |-> 0, morph |-> 0, colorGain |-> One, strength |-> One]

\* a head of load() that leaves the bubbles of the previous asset alone
LoadHeadKeepBubbles(s, nowMs) ==
  [s EXCEPT !.loadVersion = @ + 1,
            !.customUniforms = NoUniforms,
            !.bubblesEnabledForModel = FALSE,
            !.viewer = 0]

\* lines 199-207: the synchronous head of load()
LoadHead(s, nowMs) ==
  [resetFloatingBubbles(
     [s EXCEPT !.loadVersion = @ + 1,
               !.customUniforms = NoUniforms,
               !.bubblesEnabledForModel = FALSE],
     FALSE, nowMs)
   EXCEPT !.viewer = 0]

\* lines 246-255, after the kernel is installed
LoadInstallTail(s, nowMs) ==
  LET s1 == resetFloatingBubbles([s EXCEPT !.bubblesEnabledForModel = TRUE], TRUE, nowMs)
      s2 == [s1 EXCEPT !.animationStartTime = nowMs,
                       !.lastUniformUpdateTimeMs = nowMs,
                       !.colorGainApplied = One,
                       !.scaleApplied = One,
                       !.luminanceBridgeActive = FALSE,
                       !.scaleBridgeActive = FALSE]
  IN  updateAnimationUniforms(applyAnimationStyle(s2, TRUE), nowMs)

\* load(url) up to its first await
LoadStart ==
  /\ sv.loadVersion < MaxLoads
  /\ IF sv.disposed
       THEN /\ UNCHANGED <<sv, loads, viewers>>
            /\ lastOp' = <<"load", "refused">>
       ELSE LET v == sv.loadVersion + 1
                previousViewer == sv.viewer
            IN  /\ sv' = LoadHead(sv, now)
                /\ IF previousViewer # 0
                     THEN /\ viewers' = [viewers EXCEPT ![previousViewer].disposals = @ + 1]
                          /\ loads' = [loads EXCEPT ![v] = "awaitPrevDispose"]
                     ELSE /\ viewers' = [viewers EXCEPT ![v].created = TRUE]
                          /\ loads' = [loads EXCEPT ![v] = "awaitScene"]
                /\ lastOp' = <<"load", v>>
  /\ calls' = calls + 1
  /\ UNCHANGED <<now, disposeCall, gl>>

\* the previous viewer is disposed: new Viewer, addSplatScene is started
LoadResume(v) ==
  /\ loads[v] = "awaitPrevDispose"
  /\ viewers' = [viewers EXCEPT ![v].created = TRUE]
  /\ loads' = [loads EXCEPT ![v] = "awaitScene"]
  /\ lastOp' = <<"loadResume", v>>
  /\ UNCHANGED <<sv, now, disposeCall, gl, calls>>

\* a catch block that rethrows without disposing the viewer of the load
LoadSceneFailsLeaks(v) ==
  /\ loads[v] = "awaitScene"
  /\ loads' = [loads EXCEPT ![v] = "sceneFailed"]
  /\ lastOp' = <<"loadSettle", v>>
  /\ UNCHANGED <<sv, now, viewers, disposeCall, gl, calls>>

\* addSplatScene rejects: the catch block
LoadSceneFails(v) ==
  /\ loads[v] = "awaitScene"
  /\ viewers' = [viewers EXCEPT ![v].disposals = @ + 1]
  /\ loads' = [loads EXCEPT ![v] = "sceneFailed"]
  /\ lastOp' = <<"loadSettle", v>>
  /\ UNCHANGED <<sv, now, disposeCall, gl, calls>>

\* addSplatScene resolves; kernel: what installCustomAnimationKernel meets
\* ("ok", "noMaterial": no material to patch, "anchorMissing": it throws)
LoadSceneLoaded(v, kernel) ==
  /\ loads[v] = "awaitScene"
  /\ IF IsStaleLoad(sv, v)
       THEN /\ viewers' = [viewers EXCEPT ![v].disposals = @ + 1]
            /\ loads' = [loads EXCEPT ![v] = "discarded"]
            /\ UNCHANGED sv
       ELSE IF kernel = "anchorMissing"
         THEN /\ sv' = [sv EXCEPT !.viewer = v]
              /\ viewers' = [viewers EXCEPT ![v].disposals = @ + 1]
              /\ loads' = [loads EXCEPT ![v] = "kernelFailed"]
         ELSE /\ sv' = LoadInstallTail(
                         [sv EXCEPT !.viewer = v,
                                    !.customUniforms =
                                       IF kernel = "ok" THEN FreshUniforms ELSE @],
                         now)
              /\ loads' = [loads EXCEPT ![v] = "installed"]
              /\ UNCHANGED viewers
  /\ lastOp' = <<"loadSettle", v>>
  /\ UNCHANGED <<now, disposeCall, gl, calls>>

\* lines 341-353 of dispose()
DisposeHead(s, nowMs) ==
  [resetFloatingBubbles([s EXCEPT !.disposed = TRUE], FALSE, nowMs)
   EXCEPT !.bubbleLayer = NULL, !.bubbleMessages = <<>>]

\* a dispose() that does not look at disposed
DisposeStartUnguarded ==
  /\ sv' = DisposeHead(sv, now)
  /\ IF sv.viewer # 0
       THEN /\ viewers' = [viewers EXCEPT ![sv.viewer].disposals = @ + 1]
            /\ disposeCall' = "awaitViewer"
       ELSE /\ UNCHANGED viewers
            /\ disposeCall' = "done"
  /\ lastOp' = <<"dispose", sv.disposed>>
  /\ calls' = calls + 1
  /\ UNCHANGED <<now, loads, gl>>

\* dispose() up to its await
DisposeStart ==
  /\ IF sv.disposed
       THEN UNCHANGED <<sv, viewers, disposeCall>>
       ELSE /\ sv' = DisposeHead(sv, now)
            /\ IF sv.viewer # 0
                 THEN /\ viewers' = [viewers EXCEPT ![sv.viewer].disposals = @ + 1]
                      /\ disposeCall' = "awaitViewer"
                 ELSE /\ UNCHANGED viewers
                      /\ disposeCall' = "done"
  /\ lastOp' = <<"dispose", sv.disposed>>
  /\ calls' = calls + 1
  /\ UNCHANGED <<now, loads, gl>>

\* line 357, after the viewer is disposed
DisposeFinish ==
  /\ disposeCall = "awaitViewer"
  /\ sv' = [sv EXCEPT !.viewer = 0]
  /\ disposeCall' = "done"
  /\ lastOp' = <<"disposeFinish", 0>>
  /\ UNCHANGED <<now, loads, viewers, gl, calls>>

----------------------------------------------------------------------------
(* The displacement kernel: the patch of the vertex shader, lines 410-463.  *)
(* Positions are vectors <<x, y, z>> of fixed-point numbers. The values of  *)
(* sin and cos, which depend on the element's seed and on the time, are     *)
(* inputs in [-1, 1]; a built-in function whose result GLSL leaves          *)
(* undefined for its argument returns the input undef: a number or NaN.     *)

\* a float that is not a number
NaN == 0 - (Infinity + 1)

FAdd(a, b) == IF a = NaN \/ b = NaN THEN NaN ELSE a + b
FMul(a, b) == IF a = NaN \/ b = NaN THEN NaN ELSE Mul(a, b)

VAdd(u, v) == [i \in 1..3 |-> FAdd(u[i], v[i])]
VSub(u, v) == [i \in 1..3 |-> u[i] - v[i]]
VScale(v, k) == [i \in 1..3 |-> FMul(v[i], k)]
Dot(u, v) == u[1] * v[1] + u[2] * v[2] + u[3] * v[3]
Cross(u, v) ==
  << u[2] * v[3] - u[3] * v[2], u[3] * v[1] - u[1] * v[3], u[1] * v[2] - u[2] * v[1] >>

\* the square root of n, rounded down, by Newton's iteration from x
RECURSIVE SqrtFrom(_, _)
SqrtFrom(n, x) ==
  LET y == (x + n \div x) \div 2
  IN  IF y >= x THEN x ELSE SqrtFrom(n, y)

Sqrt(n) == IF n = 0 THEN 0 ELSE SqrtFrom(n, n)

\* length(v)
Length(v) == Sqrt(Dot(v, v))

\* normalize(v): undefined for the zero vector; a vector shorter than 0.0044
\* is scaled by 1000 first, to keep the digits of its length
Normalize(v, undef) ==
  LET k == IF Dot(v, v) < 2000 THEN 1000 ELSE 1
  IN  IF Dot(v, v) = 0
        THEN << undef, undef, undef >>
        ELSE [i \in 1..3 |-> (v[i] * k * One) \div Sqrt(Dot(v, v) * k * k)]

\* GLSL mix(x, y, a) = x * (1 - a) + y * a
FMix(x, y, a) ==
  IF x = NaN \/ y = NaN THEN NaN ELSE (x * (One - a) + y * a) \div One

\* line 653: the radius uniform
AnimRadius(sceneRadius) == Max(sceneRadius, 2500)

\* line 423: strength, from the strength uniform
KernelStrength(u) ==
  LET morph == Clamp01(u.morph)
      motionGate == smoothstep(1200, 3500, morph)
  IN  Mul(Mul(u.strength, morph), motionGate)

\* an offset of mode 5 along fromCenter, nothing added to it
ExplodeOffsetRadial(u, radius, fromCenter, in) ==
  LET burst == Mul(Max(in.w1, 0), Max(in.w1, 0))
      explodeDir == Normalize(fromCenter, 0)
  IN  VScale(explodeDir, Mul(Mul(Mul(burst, KernelStrength(u)), 2800), radius))

\* lines 456-458: the offset of mode 5, for sin(phase * 0.8) = in.w1
ExplodeOffset(u, radius, fromCenter, in) ==
  LET burst == Mul(Max(in.w1, 0), Max(in.w1, 0))
      explodeDir == Normalize(VAdd(fromCenter, << 1, 1, 1 >>), in.undef)
  IN  VScale(explodeDir, Mul(Mul(Mul(burst, KernelStrength(u)), 2800), radius))

\* lines 439-444: mode 2; the angle atan(z, x) is undefined for x = z = 0
Swirl(u, radius, animatedCenter, sceneCenter, fromCenter, in) ==
  LET strength == KernelStrength(u)
      delta == Mul(Mul(in.w1, 11500), strength)
      rot == IF delta = 0 THEN << One, 0 >> ELSE in.rot
      undefined == fromCenter[1] = 0 /\ fromCenter[3] = 0 /\ in.undef = NaN
      x == (fromCenter[1] * rot[1] - fromCenter[3] * rot[2]) \div One
      z == (fromCenter[1] * rot[2] + fromCenter[3] * rot[1]) \div One
  IN  << IF undefined THEN NaN ELSE sceneCenter[1] + x,
         animatedCenter[2] + Mul(Mul(Mul(in.w2, 300), strength), radius),
         IF undefined THEN NaN ELSE sceneCenter[3] + z >>

\* lines 412-460: splatCenter after the patch
KernelCenter(u, sceneRadius, baseCenter, sceneCenter, in) ==
  IF u.mode > 0
    THEN
      LET radius == AnimRadius(sceneRadius)
          morph == Clamp01(u.morph)
          fromCenter == VSub(baseCenter, sceneCenter)
          radiusNorm == Clamp01((Length(fromCenter) * One) \div Max(radius, 1))
          strength == KernelStrength(u)
          breakup == smoothstep(500, 8500, morph)
          broken == VAdd(baseCenter,
                         VScale(in.grain, Mul(Mul(breakup, mix(100, 900, radiusNorm)), radius)))
          animatedCenter ==
            CASE u.mode = 1 ->
                   << broken[1],
                      broken[2] + Mul(Mul(Mul(in.w2, strength), 200), radius),
                      broken[3] + Mul(Mul(Mul(in.w1, strength), mix(300, 1600, radiusNorm)), radius) >>
              [] u.mode = 2 -> Swirl(u, radius, broken, sceneCenter, fromCenter, in)
              [] u.mode = 3 ->
                   VAdd(broken, VScale(<< in.w1 + in.w2, in.w2 + in.w1, in.w1 + in.w2 >>,
                                       Mul(Mul(300, strength), radius)))
              [] u.mode = 4 ->
                   VAdd(sceneCenter,
                        VScale(fromCenter, One + Mul(Mul(in.w1, 1200), strength)))
              [] u.mode = 5 -> VAdd(broken, ExplodeOffset(u, radius, fromCenter, in))
              [] OTHER -> broken
      IN  [i \in 1..3 |-> FMix(baseCenter[i], animatedCenter[i], morph)]
    ELSE baseCenter

\* the vertex shader runs for one element of the frame that the last tick drew
Render(sceneRadius, baseCenter, sceneCenter, in) ==
  /\ lastOp[1] = "tick"
  /\ splatMesh(sv)
  /\ sv.customUniforms # NoUniforms
  /\ lastOp' = << "render",
                  [baseCenter |-> baseCenter,
                   fromCenter |-> VSub(baseCenter, sceneCenter),
                   sceneRadius |-> sceneRadius,
                   w1 |-> in.w1,
                   strength |-> KernelStrength(sv.customUniforms),
                   explode |-> ExplodeOffset(sv.customUniforms, AnimRadius(sceneRadius),
                                             VSub(baseCenter, sceneCenter), in),
                   splatCenter |-> KernelCenter(sv.customUniforms, sceneRadius, baseCenter,
                                                sceneCenter, in)] >>
  /\ UNCHANGED <<sv, now, loads, viewers, disposeCall, gl, calls>>

----------------------------------------------------------------------------
(* The synchronous operations *)

SetAnimation(name) ==
  /\ sv' = setAnimation(sv, name, now)
  /\ lastOp' = <<"setAnimation", name>>
  /\ calls' = calls + 1
  /\ UNCHANGED <<now, loads, viewers, disposeCall, gl>>

SetFloatingBubbles(layer, messages) ==
  /\ sv' = setFloatingBubbles(sv, layer, messages, now)
  /\ lastOp' = <<"setFloatingBubbles", layer>>
  /\ calls' = calls + 1
  /\ UNCHANGED <<now, loads, viewers, disposeCall, gl>>

SetPerformanceLevel(level) ==
  /\ sv' = setPerformanceLevel(sv, level)
  /\ lastOp' = <<"setPerformanceLevel", level>>
  /\ calls' = calls + 1
  /\ UNCHANGED <<now, loads, viewers, disposeCall, gl>>

LiveIds(s) == {s.floatingBubbles[i].id : i \in 1..Len(s.floatingBubbles)}

Entry(s, id) ==
  s.floatingBubbles[CHOOSE i \in 1..Len(s.floatingBubbles) : s.floatingBubbles[i].id = id]

\* lines 886-893: the click listener of the bubble's element
onBubbleClick(s, id, nowMs) ==
  IF Entry(s, id).kind = "text"
    THEN activateTextBubble(s, id, nowMs)
    ELSE dissipateBubble(s, id, nowMs)

\* a click event on the element of a live bubble (pointer, keyboard or script)
Click(id) ==
  /\ id \in LiveIds(sv)
  /\ \A i \in BubbleIds : sv.dust[i] < MaxBursts
  /\ sv' = onBubbleClick(sv, id, now)
  /\ lastOp' = <<"click", id>>
  /\ calls' = calls + 1
  /\ UNCHANGED <<now, loads, viewers, disposeCall, gl>>

\* lines 135-147; insideActive: the event target is inside the active bubble
onDocumentPointerDown(s, insideActive, nowMs, gapDraw) ==
  IF s.activeTextBubble = 0 \/ insideActive
    THEN s
    ELSE dismissActiveTextBubble(s, nowMs, gapDraw)

\* a pointerdown event on the window
PointerDown(insideActive, gapDraw) ==
  /\ ~sv.disposed
  /\ sv' = onDocumentPointerDown(sv, insideActive, now, gapDraw)
  /\ lastOp' = <<"pointerDown", insideActive>>
  /\ calls' = calls + 1
  /\ UNCHANGED <<now, loads, viewers, disposeCall, gl>>

\* the frame d ms from now creates no bubble beyond the k-th
SpawnRoom(k, d) == WouldSpawn(sv, now + d) => sv.bubbleSeq < k

\* the frame callback d ms after the last one: update()
Tick(d, rnd, place, view) ==
  /\ now + d <= MaxNow
  /\ WouldSpawn(sv, now + d) => sv.bubbleSeq < MaxIds
  /\ now' = now + d
  /\ LET after == update(sv, now + d, rnd, place, view)
     IN  sv' = [after EXCEPT !.tickGain = after.colorGainApplied]
  /\ lastOp' = <<"tick", d>>
  /\ UNCHANGED <<loads, viewers, disposeCall, gl, calls>>

----------------------------------------------------------------------------
(* Initial state: after the constructor *)

InitSv(mobile) ==
  [viewer |-> 0, customUniforms |-> NoUniforms,
   animationMode |-> "none", animationStartTime |-> 0,
   pointCloudEnabled |-> FALSE,
   luminanceBridgeActive |-> FALSE, luminanceBridgeFrom |-> One,
   luminanceBridgeElapsed |-> 0,
   scaleBridgeActive |-> FALSE, scaleBridgeFrom |-> One, scaleBridgeElapsed |-> 0,
   colorGainApplied |-> One, scaleApplied |-> One,
   lastUniformUpdateTimeMs |-> 0,
   loadVersion |-> 0, disposed |-> FALSE,
   bubbleLayer |-> NULL, bubbleMessages |-> <<>>,
   floatingBubbles |-> <<>>, nextBubbleSpawnMs |-> Infinity,
   performanceLevel |-> "high", lastBubbleTickMs |-> 0,
   bubblesEnabledForModel |-> FALSE, activeTextBubble |-> 0,
   isMobileLike |-> mobile,
   tickGain |-> 0,                     \* colorGainApplied when the last tick returned
   bubbleSeq |-> 0,                    \* bubbles created so far (object identity)
   lastSpawnMs |-> -1,                 \* the time of the last spawn, -1 before it
   dust |-> [i \in BubbleIds |-> 0]]   \* the dust bursts put into the layer

InitWith(mobiles, gls) ==
  /\ \E mobile \in mobiles : sv = InitSv(mobile)
  /\ now = 0
  /\ loads = [v \in 1..MaxLoads |-> "unused"]
  /\ viewers = [v \in 1..MaxLoads |-> [created |-> FALSE, disposals |-> 0]]
  /\ disposeCall = "none"
  /\ gl \in gls
  /\ calls = 0
  /\ lastOp = <<"new", 0>>

----------------------------------------------------------------------------
(* Inputs *)

ClearPixels == [i \in 1..9 |-> 0]
PixelsAt(k, a) == [i \in 1..9 |-> IF i = k THEN a ELSE 0]

ClearPlace == [onScreen |-> TRUE, coveredTries |-> 0, pixels |-> ClearPixels]

InView == [inViewport |-> TRUE, edgeFade |-> One, pixels |-> ClearPixels]
PlainView == [id \in BubbleIds |-> InView]

\* the frame is opaque at sample k of every probe: the model is behind every
\* bubble and behind the place where a bubble is put
CoveredPlace(k) == [onScreen |-> TRUE, coveredTries |-> 3, pixels |-> PixelsAt(k, 255)]
CoveredView(k) ==
  [id \in BubbleIds |-> [inViewport |-> TRUE, edgeFade |-> One, pixels |-> PixelsAt(k, 255)]]

\* the names given to setAnimation
N_none == <<"n","o","n","e">>
N_ZWave == <<"Z","-","W","a","v","e">>
N_swirl == <<"s","w","i","r","l">>
N_bogus == <<"b","o","g","u","s">>
N_constructor == <<"c","o","n","s","t","r","u","c","t","o","r">>
N_off == <<"o","f","f">>
N_Z_Wave == <<" ","Z"," ","W","a","v","e">>
N_z_wave == <<"z","_","w","a","v","e">>
N_ZWAVE == <<"Z","W","A","V","E">>
N_Noise == <<"N","o","i","s","e","\n">>
N_breath == <<"b","r","e","a","t","h">>
N_Breathe == <<"B","r","e","a","t","h","e"," ">>
N_EXPLODE == <<"\t","E","X","P","L","O","D","E">>
N_empty == <<>>
N_blank == <<" ">>
N_proto == <<"_","_","p","r","o","t","o","_","_">>
N_Constructor == <<" ","C","o","n","s","t","r","u","c","t","o","r">>

\* the names tried in SpecMode
ModeNames ==
  {N_none, N_ZWave, N_swirl, N_bogus, N_constructor, N_off, N_Z_Wave, N_z_wave, N_ZWAVE, N_Noise,
   N_breath, N_Breathe, N_EXPLODE, N_empty, N_blank, N_proto, N_Constructor}

M_hello == <<"h","e","l","l","o">>

\* a message of white space only
M_blank == <<" ">>

\* the Math.random() draws of a tick, all lowest
Rnd0 == [kind |-> 0, life |-> 0, gap |-> 0]

----------------------------------------------------------------------------
(* Spec: the whole controller, with frames far apart: the load and dispose *)
(* protocol against mode changes, bubbles and ticks.                       *)

Init == InitWith({FALSE}, {"ok"})

Next ==
  \/ calls < MaxCalls /\ LoadStart
  \/ \E v \in 1..MaxLoads : LoadResume(v)
  \/ \E v \in 1..MaxLoads : LoadSceneFails(v)
  \/ \E v \in 1..MaxLoads : \E k \in {"ok", "noMaterial", "anchorMissing"} :
       LoadSceneLoaded(v, k)
  \/ calls < MaxCalls /\ DisposeStart
  \/ DisposeFinish
  \/ calls < MaxCalls /\ \E name \in {N_none, N_ZWave} : SetAnimation(name)
  \/ calls < MaxCalls /\ \E layer \in {NULL, "layer"} : SetFloatingBubbles(layer, <<M_hello>>)
  \/ calls < MaxCalls /\ \E id \in BubbleIds : Click(id)
  \/ calls < MaxCalls /\ PointerDown(FALSE, 0)
  \/ SpawnRoom(MaxSpawns, FrameGapMs) /\ Tick(FrameGapMs, Rnd0, ClearPlace, PlainView)

Spec == Init /\ [][Next]_vars

----------------------------------------------------------------------------
(* SpecBubbles: the bubbles of one loaded model on a desktop: spawns, clicks, *)
(* pointer presses, resets, performance levels; a frame every LongGapMs and  *)
(* one ShortGapMs after a user event.                                        *)

\* the Math.random() draws of a tick that decide the kind of the bubble
KindDraws == {[kind |-> k, life |-> 0, gap |-> 0] : k \in 0..(RandDen - 1)}

\* the last operation was a user event
AfterUserEvent == lastOp[1] \in {"click", "pointerDown"}

InitBubbles == InitWith({FALSE}, {"ok"})

NextBubbles ==
  \/ calls < MaxCallsBubbles /\ sv.loadVersion < 1 /\ LoadStart
  \/ LoadSceneLoaded(1, "ok")
  \/ calls < MaxCallsBubbles /\ SetFloatingBubbles("layer", <<M_hello>>)
  \/ calls < MaxCallsBubbles /\ \E level \in {"high", "low"} : SetPerformanceLevel(level)
  \/ calls < MaxCallsBubbles /\ \E id \in BubbleIds : Click(id)
  \/ calls < MaxCallsBubbles /\ \E inside \in BOOLEAN : PointerDown(inside, 0)
  \/ \E rnd \in KindDraws :
       SpawnRoom(MaxSpawnsBubbles, LongGapMs) /\ Tick(LongGapMs, rnd, ClearPlace, PlainView)
  \/ AfterUserEvent /\ SpawnRoom(MaxSpawnsBubbles, ShortGapMs)
       /\ Tick(ShortGapMs, Rnd0, ClearPlace, PlainView)

SpecBubbles == InitBubbles /\ [][NextBubbles]_vars

----------------------------------------------------------------------------
(* SpecCapacity: bubbles spawned as fast as the schedule allows and living  *)
(* long, on both device classes, with performance changes, clicks and       *)
(* resets: the list fills up to its capacity.                               *)

\* the Math.random() draws of a tick: a plain bubble, the longest life, the
\* shortest gap
RndLong == [kind |-> RandDen - 1, life |-> RandDen - 1, gap |-> 0]

\* the list holds as many bubbles as the performance level allows
Full == Len(sv.floatingBubbles) = getActiveMaxFloatingBubbles(sv)

InitCapacity == InitWith(BOOLEAN, {"ok"})

NextCapacity ==
  \/ calls < MaxCallsCapacity /\ now = 0 /\ sv.loadVersion < 1 /\ LoadStart
  \/ now = 0 /\ LoadSceneLoaded(1, "ok")
  \/ calls < MaxCallsCapacity /\ (now = 0 \/ Full) /\ SetFloatingBubbles("layer", <<>>)
  \/ calls < MaxCallsCapacity /\ \E level \in {"high", "low"} : SetPerformanceLevel(level)
  \/ calls < MaxCallsCapacity /\ Full /\ Click(Head(sv.floatingBubbles).id)
  \/ Tick(CapacityGapMs, RndLong, ClearPlace, PlainView)

SpecCapacity == InitCapacity /\ [][NextCapacity]_vars

----------------------------------------------------------------------------
(* SpecAnim: the animation of one model, loaded at time 0: mode changes at  *)
(* any frame, a frame every AnimGapMs and one ShortGapMs after a call.      *)

AfterCall == lastOp[1] \in {"setAnimation", "loadSettle"}

InitAnim == InitWith(BOOLEAN, {"ok"})

NextAnim ==
  \/ calls < MaxCallsAnim /\ now = 0 /\ sv.loadVersion < 1 /\ LoadStart
  \/ now = 0 /\ \E k \in {"ok", "noMaterial"} : LoadSceneLoaded(1, k)
  \/ calls < MaxCallsAnim /\ \E name \in {N_none, N_ZWave} : SetAnimation(name)
  \/ Tick(AnimGapMs, Rnd0, ClearPlace, PlainView)
  \/ AfterCall /\ Tick(ShortGapMs, Rnd0, ClearPlace, PlainView)

SpecAnim == InitAnim /\ [][NextAnim]_vars

----------------------------------------------------------------------------
(* SpecMode: setAnimation with every kind of name, between frames *)

InitMode == InitWith({FALSE}, {"ok"})

NextMode ==
  \/ calls < MaxCallsMode /\ \E name \in ModeNames : SetAnimation(name)
  \/ Tick(FrameGapMs, Rnd0, ClearPlace, PlainView)

SpecMode == InitMode /\ [][NextMode]_vars

----------------------------------------------------------------------------
(* SpecMorph: the morph clock of a loaded model sampled every MorphGapMs,  *)
(* over nearly two loops, the mode set at any frame.                       *)

InitMorph == InitWith({FALSE}, {"ok"})

NextMorph ==
  \/ calls < MaxCallsMorph /\ now = 0 /\ sv.loadVersion < 1 /\ LoadStart
  \/ now = 0 /\ LoadSceneLoaded(1, "ok")
  \/ calls < MaxCallsMorph /\ \E name \in {N_none, N_ZWave, N_swirl} : SetAnimation(name)
  \/ Tick(MorphGapMs, Rnd0, ClearPlace, PlainView)
  \/ AfterCall /\ Tick(ShortGapMs, Rnd0, ClearPlace, PlainView)

SpecMorph == InitMorph /\ [][NextMorph]_vars

----------------------------------------------------------------------------
(* SpecProbe: bubbles in front of the model (the frame is opaque at one    *)
(* sample of every probe), with a read-back that works, is missing, or     *)
(* throws on every read.                                                   *)

InitProbe == InitWith(BOOLEAN, {"ok", "none", "throws"})

NextProbe ==
  \/ calls < MaxCallsProbe /\ now = 0 /\ sv.loadVersion < 1 /\ LoadStart
  \/ now = 0 /\ LoadSceneLoaded(1, "ok")
  \/ calls < MaxCallsProbe /\ SetFloatingBubbles("layer", <<M_hello>>)
  \/ calls < MaxCallsProbe /\ \E level \in {"high", "low"} : SetPerformanceLevel(level)
  \/ \E rnd \in KindDraws : \E k \in {1, 5, 9} :
       /\ SpawnRoom(MaxSpawnsBubbles, LongGapMs)
       /\ Tick(LongGapMs, rnd, CoveredPlace(k), CoveredView(k))

SpecProbe == InitProbe /\ [][NextProbe]_vars

----------------------------------------------------------------------------
(* SpecSwitch: one model, loaded at time 0, and calls of setAnimation that  *)
(* change the mode, at any frame; a frame every AnimGapMs.                  *)

InitSwitch == InitWith({FALSE}, {"ok"})

NextSwitch ==
  \/ calls < MaxCallsSwitch /\ now = 0 /\ sv.loadVersion < 1 /\ LoadStart
  \/ now = 0 /\ LoadSceneLoaded(1, "ok")
  \/ calls < MaxCallsSwitch /\ \E name \in {N_none, N_ZWave, N_swirl} :
       ResolveMode(name) # sv.animationMode /\ SetAnimation(name)
  \/ Tick(AnimGapMs, Rnd0, ClearPlace, PlainView)

SpecSwitch == InitSwitch /\ [][NextSwitch]_vars

----------------------------------------------------------------------------
(* SpecThrows: bubbles with long lives in front of the model while every    *)
(* read-back of the frame throws, the animation running.                   *)

\* the Math.random() draws of a tick: either kind, the longest life
LongLifeDraws == {[kind |-> k, life |-> RandDen - 1, gap |-> 0] : k \in 0..(RandDen - 1)}

InitThrows == InitWith({FALSE}, {"throws"})

NextThrows ==
  \/ calls < MaxCallsThrows /\ now = 0 /\ sv.loadVersion < 1 /\ LoadStart
  \/ now = 0 /\ LoadSceneLoaded(1, "ok")
  \/ calls < MaxCallsThrows /\ SetFloatingBubbles("layer", <<M_hello>>)
  \/ calls < MaxCallsThrows /\ SetAnimation(N_ZWave)
  \/ calls < MaxCallsThrows /\ \E level \in {"high", "low"} : SetPerformanceLevel(level)
  \/ \E rnd \in LongLifeDraws : \E k \in {1, 5, 9} :
       /\ SpawnRoom(MaxSpawns, LongGapMs)
       /\ Tick(LongGapMs, rnd, CoveredPlace(k), CoveredView(k))

SpecThrows == InitThrows /\ [][NextThrows]_vars

----------------------------------------------------------------------------
(* SpecEvict: a mobile device whose list fills with long-lived bubbles, the *)
(* oldest ones text bubbles; with more bubbles live than the low level      *)
(* allows, the oldest is clicked, the level changed, the pointer pressed.   *)

\* the Math.random() draws of a tick: a text bubble if one may be made, the
\* longest life, the shortest gap
RndText == [kind |-> 0, life |-> RandDen - 1, gap |-> 0]

\* more bubbles are live than the low performance level allows
OverLow ==
  Len(sv.floatingBubbles) >
    getActiveMaxFloatingBubbles([sv EXCEPT !.performanceLevel = "low"])

InitEvict == InitWith({TRUE}, {"ok"})

NextEvict ==
  \/ calls < MaxCallsEvict /\ now = 0 /\ sv.loadVersion < 1 /\ LoadStart
  \/ now = 0 /\ LoadSceneLoaded(1, "ok")
  \/ calls < MaxCallsEvict /\ now = 0
       /\ \E messages \in {<<M_hello>>, <<M_blank>>} : SetFloatingBubbles("layer", messages)
  \/ calls < MaxCallsEvict /\ (OverLow \/ AfterUserEvent)
       /\ \E level \in {"high", "low"} : SetPerformanceLevel(level)
  \/ calls < MaxCallsEvict /\ OverLow /\ Click(Head(sv.floatingBubbles).id)
  \/ calls < MaxCallsEvict /\ sv.activeTextBubble # 0 /\ PointerDown(FALSE, 0)
  \/ Tick(CapacityGapMs, RndText, ClearPlace, PlainView)

SpecEvict == InitEvict /\ [][NextEvict]_vars

----------------------------------------------------------------------------
(* SpecInterval: the first bubbles of a loaded model, on both device       *)
(* classes, a frame every ProbeGapMs; the model is behind every bubble in   *)
(* some frames and not in others; the performance level changes at any      *)
(* frame.                                                                    *)

InitInterval == InitWith(BOOLEAN, {"ok"})

NextInterval ==
  \/ calls < MaxCallsInterval /\ now = 0 /\ sv.loadVersion < 1 /\ LoadStart
  \/ now = 0 /\ LoadSceneLoaded(1, "ok")
  \/ calls < MaxCallsInterval /\ now = 0 /\ SetFloatingBubbles("layer", <<>>)
  \/ calls < MaxCallsInterval /\ \E level \in {"high", "low"} : SetPerformanceLevel(level)
  \/ \E view \in {PlainView, CoveredView(1)} :
       /\ now + ProbeGapMs <= ProbeHorizonMs
       /\ Tick(ProbeGapMs, Rnd0, ClearPlace, view)

SpecInterval == InitInterval /\ [][NextInterval]_vars

----------------------------------------------------------------------------
(* SpecSchedule: the spawn schedule of a loaded model on both device       *)
(* classes, a frame every ScheduleGapMs; resets, performance changes, a     *)
(* click on the newest bubble and a pointer press outside it at any frame.  *)

\* the Math.random() draws of a tick: a text bubble, the shortest or the
\* longest gap
GapDraws == {[kind |-> 0, life |-> 0, gap |-> g] : g \in {0, RandDen - 1}}

InitSchedule == InitWith(BOOLEAN, {"ok"})

NextSchedule ==
  \/ calls < MaxCallsSchedule /\ now = 0 /\ sv.loadVersion < 1 /\ LoadStart
  \/ now = 0 /\ LoadSceneLoaded(1, "ok")
  \/ calls < MaxCallsSchedule /\ SetFloatingBubbles("layer", <<M_hello>>)
  \/ calls < MaxCallsSchedule /\ \E level \in {"high", "low"} :
       level # sv.performanceLevel /\ SetPerformanceLevel(level)
  \/ calls < MaxCallsSchedule /\ sv.activeTextBubble = 0 /\ Click(sv.bubbleSeq)
  \/ calls < MaxCallsSchedule /\ sv.activeTextBubble # 0
       /\ \E g \in {0, RandDen - 1} : PointerDown(FALSE, g)
  \/ \E rnd \in GapDraws :
       /\ now + ScheduleGapMs <= ScheduleHorizonMs
       /\ Tick(ScheduleGapMs, rnd, ClearPlace, PlainView)

SpecSchedule == InitSchedule /\ [][NextSchedule]_vars

----------------------------------------------------------------------------
(* SpecRange: the applied gain and scale of one model on both device        *)
(* classes: a frame every RangeGapMs in the first loop of the morph clock,  *)
(* then frames one whole loop apart, which come back to the same phase; the *)
(* mode is set at any frame.                                                *)

\* the frame callback d ms after the last one, not later than horizon
TickUntil(horizon, d) ==
  /\ now + d <= horizon
  /\ ~WouldSpawn(sv, now + d)
  /\ now' = now + d
  /\ LET after == update(sv, now + d, Rnd0, ClearPlace, PlainView)
     IN  sv' = [after EXCEPT !.tickGain = after.colorGainApplied]
  /\ lastOp' = <<"tick", d>>
  /\ UNCHANGED <<loads, viewers, disposeCall, gl, calls>>

InitRange == InitWith(BOOLEAN, {"ok"})

NextRange ==
  \/ calls < MaxCallsRange /\ now = 0 /\ sv.loadVersion < 1 /\ LoadStart
  \/ now = 0 /\ LoadSceneLoaded(1, "ok")
  \/ calls < MaxCallsRange /\ \E name \in {N_none, N_ZWave} : SetAnimation(name)
  \/ now < morphLoopMs /\ TickUntil(RangeHorizonMs, RangeGapMs)
  \/ now > 0 /\ TickUntil(RangeHorizonMs, morphLoopMs)

SpecRange == InitRange /\ [][NextRange]_vars

----------------------------------------------------------------------------
(* SpecKernel: one model in each mode, a frame every KernelGapMs over one   *)
(* loop of the morph clock, and the displacement kernel run on elements of  *)
(* the frames.                                                               *)

\* the values of sin and cos
Waves == {0 - One, 0, One}

\* the inputs of one run of the kernel: the grain direction, two values of
\* sin or cos, the cos and sin of a swirl angle, the result of an undefined
\* operation
KernelInputs ==
  [grain : {<< One, 0, 0 >>, << 0, 0 - One, 0 >>},
   w1 : Waves,
   w2 : {0 - One, One},
   rot : {<< 6000, 8000 >>},
   undef : {0, NaN}]

SceneCenter == << 1000, 0, 0 - 2000 >>

\* baseCenter - sceneCenter of the elements: off the axes, on the vertical
\* axis through the centre, at the centre, at (0.0001, 0, 0) and at
\* (-0.0001, -0.0001, -0.0001)
FromCenters ==
  {<< 2999, 3999, 0 - 1 >>, << 0, 5000, 0 >>, << 0, 0, 0 >>, << 1, 0, 0 >>,
   << 0 - 1, 0 - 1, 0 - 1 >>}

KernelModeNames == {N_none, N_ZWave, N_swirl, N_Noise, N_breath, N_EXPLODE}

InitKernel == InitWith({FALSE}, {"ok"})

NextKernel ==
  \/ calls < MaxCallsKernel /\ now = 0 /\ sv.loadVersion < 1 /\ LoadStart
  \/ now = 0 /\ LoadSceneLoaded(1, "ok")
  \/ calls < MaxCallsKernel /\ now = 0 /\ \E name \in KernelModeNames : SetAnimation(name)
  \/ TickUntil(KernelHorizonMs, KernelGapMs)
  \/ \E fromCenter \in FromCenters : \E sceneRadius \in {One, 1000} : \E in \in KernelInputs :
       Render(sceneRadius, VAdd(SceneCenter, fromCenter), SceneCenter, in)

SpecKernel == InitKernel /\ [][NextKernel]_vars

----------------------------------------------------------------------------
(* SpecStall: the animation with frames at a steady rate and frames that    *)
(* come after a stall of the page (a hidden tab, a long task) longer than   *)
(* the reveal window.                                                       *)

InitStall == InitWith({FALSE}, {"ok"})

NextStall ==
  \/ calls < MaxCallsStall /\ now = 0 /\ sv.loadVersion < 1 /\ LoadStart
  \/ now = 0 /\ LoadSceneLoaded(1, "ok")
  \/ calls < MaxCallsStall /\ \E name \in {N_ZWave, N_swirl} : SetAnimation(name)
  \/ TickUntil(StallHorizonMs, StallStepMs)
  \/ TickUntil(StallHorizonMs, StallGapMs)

SpecStall == InitStall /\ [][NextStall]_vars

----------------------------------------------------------------------------
(* The page driver (main.ts): its module variables are the record page, it  *)
(* holds one SplatViewer; a world is the pair of both.                      *)

N_zwave == <<"z","w","a","v","e">>
N_explode == <<"e","x","p","l","o","d","e">>

\* line 55
mobileCycleModes == << N_zwave, N_swirl, N_breath, N_explode >>

\* lines 56-65, 508-511: the module variables before the calls of lines
\* 461-463; matches is mobileQuery.matches, scrollIndex is the stop that the
\* scroll position of the narrative designates, animStops holds the mode of
\* every stop of the document
NewPage(matches, animStops) ==
  [matches |-> matches, scrollIndex |-> 0, animStops |-> animStops,
   isMobileLayout |-> matches, performanceLevel |-> "high",
   activeAnimIndex |-> 0 - 1, isShowcaseMode |-> FALSE, mobileCycleModeIndex |-> 0,
   isNarrativeScrolling |-> FALSE, narrativePerfRestoreLevel |-> NULL,
   narrativeScrollRaf |-> FALSE, narrativeScrollIdleTimer |-> FALSE,
   fpsFrameCount |-> 0, fpsWindowStartMs |-> 0, lowFpsWindows |-> 0, highFpsWindows |-> 0,
   frameMs |-> 0]

WithPage(w, p) == [w EXCEPT !.page = p]

\* lines 74-80
applyPerformanceLevel(w, nextLevel) ==
  IF w.page.performanceLevel = nextLevel
    THEN w
    ELSE [page |-> [w.page EXCEPT !.performanceLevel = nextLevel],
          sv |-> setPerformanceLevel(w.sv, nextLevel)]

\* lines 133-164: a function of the scroll position
resolveAnimIndexFromScroll(p) == p.scrollIndex

\* lines 166-177
startNarrativeScrollBoost(w) ==
  IF w.page.isNarrativeScrolling
    THEN w
    ELSE
      LET w1 == WithPage(w, [w.page EXCEPT !.isNarrativeScrolling = TRUE,
                                           !.lowFpsWindows = 0,
                                           !.highFpsWindows = 0,
                                           !.narrativePerfRestoreLevel = w.page.performanceLevel])
      IN  IF w1.page.performanceLevel # "low" THEN applyPerformanceLevel(w1, "low") ELSE w1

\* lines 179-190
stopNarrativeScrollBoost(w) ==
  IF ~w.page.isNarrativeScrolling
    THEN w
    ELSE
      LET w1 == WithPage(w, [w.page EXCEPT !.isNarrativeScrolling = FALSE,
                                           !.lowFpsWindows = 0,
                                           !.highFpsWindows = 0])
          restore == w1.page.narrativePerfRestoreLevel
          w2 == IF restore # NULL /\ w1.page.performanceLevel # restore
                  THEN applyPerformanceLevel(w1, restore)
                  ELSE w1
      IN  WithPage(w2, [w2.page EXCEPT !.narrativePerfRestoreLevel = NULL])

\* lines 302-313
applyAnimIndex(w, nextIndex, nowMs) ==
  LET normalized == nextIndex % Len(w.page.animStops)
  IN  IF normalized = w.page.activeAnimIndex
        THEN w
        ELSE [page |-> [w.page EXCEPT !.activeAnimIndex = normalized],
              sv |-> setAnimation(w.sv, w.page.animStops[normalized + 1], nowMs)]

\* indexOf and findIndex: the first index (from 0) of x in list, -1 without one
IndexOf(list, x) ==
  IF \E i \in 1..Len(list) : list[i] = x
    THEN (CHOOSE i \in 1..Len(list) : list[i] = x /\ \A j \in 1..(i - 1) : list[j] # x) - 1
    ELSE 0 - 1

\* lines 315-318
resolveStopIndexByMode(p, mode) == Max(IndexOf(p.animStops, mode), 0)

\* lines 320-326
applyMobileCycleMode(w, nextModeIndex, nowMs) ==
  LET normalized == nextModeIndex % Len(mobileCycleModes)
      w1 == WithPage(w, [w.page EXCEPT !.mobileCycleModeIndex = normalized])
  IN  applyAnimIndex(w1, resolveStopIndexByMode(w1.page, mobileCycleModes[normalized + 1]), nowMs)

\* lines 336-343 and 265-272: the pending idle timer and the pending frame
\* callback of the narrative are cancelled
cancelNarrativeCallbacks(w) ==
  WithPage(w, [w.page EXCEPT !.narrativeScrollIdleTimer = FALSE, !.narrativeScrollRaf = FALSE])

\* lines 328-355
setShowcaseMode(w, enabled, nowMs) ==
  IF w.page.isShowcaseMode = enabled
    THEN w
    ELSE
      LET w1 == WithPage(w, [w.page EXCEPT !.isShowcaseMode = enabled])
      IN  IF enabled
            THEN [stopNarrativeScrollBoost(cancelNarrativeCallbacks(w1))
                  EXCEPT !.sv = setAnimation(@, N_none, nowMs)]
          ELSE IF w1.page.isMobileLayout
            THEN applyMobileCycleMode(w1, w1.page.mobileCycleModeIndex, nowMs)
          ELSE applyAnimIndex(w1, resolveAnimIndexFromScroll(w1.page), nowMs)

\* lines 274-282: the cycle index follows the mode of the active stop
followActiveStop(p) ==
  IF p.activeAnimIndex >= 0 /\ IndexOf(mobileCycleModes, p.animStops[p.activeAnimIndex + 1]) >= 0
    THEN [p EXCEPT !.mobileCycleModeIndex =
                      IndexOf(mobileCycleModes, p.animStops[p.activeAnimIndex + 1])]
    ELSE p

\* lines 258-300
updateLayoutMode(w, nowMs) ==
  LET w1 == WithPage(w, [w.page EXCEPT !.isMobileLayout = w.page.matches])
      w2 == IF w1.page.isMobileLayout
              THEN LET a == WithPage(w1, [w1.page EXCEPT !.isShowcaseMode = FALSE])
                       b == stopNarrativeScrollBoost(cancelNarrativeCallbacks(a))
                   IN  WithPage(b, followActiveStop(b.page))
              ELSE w1
      w3 == IF w2.page.isMobileLayout /\ w2.page.performanceLevel # "low"
              THEN applyPerformanceLevel(w2, "low")
              ELSE w2
  IN  IF w3.page.isMobileLayout
        THEN applyMobileCycleMode(w3, w3.page.mobileCycleModeIndex, nowMs)
      ELSE IF w3.page.isShowcaseMode
        THEN [w3 EXCEPT !.sv = setAnimation(@, N_none, nowMs)]
      ELSE applyAnimIndex(w3, resolveAnimIndexFromScroll(w3.page), nowMs)

\* lines 192-200
queueNarrativeSync(w) == WithPage(w, [w.page EXCEPT !.narrativeScrollRaf = TRUE])

\* lines 390-404: the scroll listener of the narrative
onNarrativeScroll(w) ==
  IF w.page.isShowcaseMode \/ w.page.isMobileLayout
    THEN w
    ELSE LET w1 == queueNarrativeSync(startNarrativeScrollBoost(w))
         IN  WithPage(w1, [w1.page EXCEPT !.narrativeScrollIdleTimer = TRUE])

\* lines 399-403: the idle timer of the narrative, 140 ms after the last scroll
onNarrativeIdle(w) ==
  stopNarrativeScrollBoost(
    queueNarrativeSync(WithPage(w, [w.page EXCEPT !.narrativeScrollIdleTimer = FALSE])))

\* lines 196-199: the frame callback of queueNarrativeSync
onNarrativeSync(w, nowMs) ==
  LET w1 == WithPage(w, [w.page EXCEPT !.narrativeScrollRaf = FALSE])
  IN  applyAnimIndex(w1, resolveAnimIndexFromScroll(w1.page), nowMs)

\* a measurement that raises the level after three fast seconds on every layout
fpsWindowAnyLayout(w, fpsFrameCount, fpsWindowElapsedMs) ==
  IF w.page.isNarrativeScrolling
    THEN WithPage(w, [w.page EXCEPT !.lowFpsWindows = 0, !.highFpsWindows = 0])
    ELSE
      LET p1 == IF fpsFrameCount * 1000 < 42 * fpsWindowElapsedMs
                  THEN [w.page EXCEPT !.lowFpsWindows = @ + 1, !.highFpsWindows = 0]
                ELSE IF fpsFrameCount * 1000 > 55 * fpsWindowElapsedMs
                  THEN [w.page EXCEPT !.highFpsWindows = @ + 1, !.lowFpsWindows = 0]
                ELSE [w.page EXCEPT !.lowFpsWindows = 0, !.highFpsWindows = 0]
          w1 == WithPage(w, p1)
      IN  IF p1.performanceLevel = "high" /\ p1.lowFpsWindows >= 2
            THEN applyPerformanceLevel(w1, "low")
          ELSE IF p1.performanceLevel = "low" /\ p1.highFpsWindows >= 3
            THEN applyPerformanceLevel(w1, "high")
          ELSE w1

\* lines 476-502: the end of a measurement window; fps is
\* fpsFrameCount * 1000 / fpsWindowElapsedMs
fpsWindow(w, fpsFrameCount, fpsWindowElapsedMs) ==
  IF w.page.isNarrativeScrolling
    THEN WithPage(w, [w.page EXCEPT !.lowFpsWindows = 0, !.highFpsWindows = 0])
    ELSE
      LET p1 == IF fpsFrameCount * 1000 < 42 * fpsWindowElapsedMs
                  THEN [w.page EXCEPT !.lowFpsWindows = @ + 1, !.highFpsWindows = 0]
                ELSE IF fpsFrameCount * 1000 > 55 * fpsWindowElapsedMs
                  THEN [w.page EXCEPT !.highFpsWindows = @ + 1, !.lowFpsWindows = 0]
                ELSE [w.page EXCEPT !.lowFpsWindows = 0, !.highFpsWindows = 0]
          w1 == WithPage(w, p1)
      IN  IF p1.performanceLevel = "high" /\ p1.lowFpsWindows >= 2
            THEN applyPerformanceLevel(w1, "low")
          ELSE IF p1.performanceLevel = "low" /\ p1.highFpsWindows >= 3 /\ ~p1.isMobileLayout
            THEN applyPerformanceLevel(w1, "high")
          ELSE w1

\* lines 471-507: the frame callback of the page
animate(w, nowMs) ==
  LET fpsFrameCount == w.page.fpsFrameCount + 1
      fpsWindowElapsedMs == nowMs - w.page.fpsWindowStartMs
      w1 == IF fpsWindowElapsedMs >= 1000
              THEN fpsWindow(WithPage(w, [w.page EXCEPT !.fpsFrameCount = 0,
                                                        !.fpsWindowStartMs = nowMs]),
                             fpsFrameCount, fpsWindowElapsedMs)
              ELSE WithPage(w, [w.page EXCEPT !.fpsFrameCount = fpsFrameCount])
  IN  [w1 EXCEPT !.sv = update(@, nowMs, Rnd0, ClearPlace, PlainView)]

\* the page of this state, and the world it makes with the viewer
PageRuns == lastOp[1] \notin {"new", "load", "loadSettle"}
page == lastOp[2]
World == [page |-> page, sv |-> sv]

\* the step of a listener or callback of the page that ends in the world w
PageStep(event, w) ==
  /\ \E after \in {w} :
       /\ sv' = after.sv
       /\ lastOp' = << event, after.page >>
  /\ UNCHANGED <<loads, viewers, disposeCall, gl>>

\* lines 44-66 and 461-512: the page is opened; setFloatingBubbles, the
\* first performance level and layout, the head of the first load, and the
\* first frame
PageOpen(matches, animStops) ==
  /\ lastOp[1] = "new"
  /\ \E w0 \in {[page |-> NewPage(matches, animStops),
                 sv |-> setFloatingBubbles(sv, "layer", << M_hello >>, now)]} :
     \E w1 \in {applyPerformanceLevel(w0, IF matches THEN "low" ELSE "high")} :
     \E w2 \in {updateLayoutMode(w1, now)} :
     \E w3 \in {animate([w2 EXCEPT !.sv = LoadHead(@, now)], now)} :
       /\ sv' = w3.sv
       /\ lastOp' = << "open", w3.page >>
  /\ viewers' = [viewers EXCEPT ![1].created = TRUE]
  /\ loads' = [loads EXCEPT ![1] = "awaitScene"]
  /\ UNCHANGED <<now, disposeCall, gl, calls>>

\* user and layout events come right after the opening of the page and at
\* the start of a measurement window
AtEventPoint == PageRuns /\ (now = 0 \/ page.fpsFrameCount = 0)

\* the media query changes and its listener runs (lines 465-469)
LayoutChange ==
  /\ AtEventPoint
  /\ PageStep("layout", updateLayoutMode(WithPage(World, [page EXCEPT !.matches = ~@]), now))
  /\ calls' = calls + 1
  /\ UNCHANGED now

\* the user scrolls the narrative to the stop index
NarrativeScroll(index) ==
  /\ AtEventPoint
  /\ PageStep("scroll", onNarrativeScroll(WithPage(World, [page EXCEPT !.scrollIndex = index])))
  /\ calls' = calls + 1
  /\ UNCHANGED now

NarrativeIdle ==
  /\ AtEventPoint
  /\ page.narrativeScrollIdleTimer
  /\ PageStep("idle", onNarrativeIdle(World))
  /\ UNCHANGED <<now, calls>>

NarrativeSync ==
  /\ AtEventPoint
  /\ page.narrativeScrollRaf
  /\ PageStep("sync", onNarrativeSync(World, now))
  /\ UNCHANGED <<now, calls>>

\* lines 421-425: the click listener of the showcase toggle
ShowcaseToggle ==
  /\ AtEventPoint
  /\ PageStep("showcase", setShowcaseMode(World, ~page.isShowcaseMode, now))
  /\ calls' = calls + 1
  /\ UNCHANGED now

\* a frame d ms after the last one; the frame time changes between windows
Animate(d) ==
  /\ PageRuns
  /\ now + d <= PageHorizonMs
  /\ now = 0 \/ page.fpsFrameCount = 0 \/ d = page.frameMs
  /\ now' = now + d
  /\ PageStep("frame", animate(WithPage(World, [page EXCEPT !.frameMs = d]), now + d))
  /\ UNCHANGED calls

----------------------------------------------------------------------------
(* SpecPage: the page from its opening, while the first asset is loading:   *)
(* layout changes, scrolling, the showcase toggle, and seconds of fast and  *)
(* of slow frames.                                                          *)

StopLists == {<< N_zwave, N_swirl, N_none >>}

InitPage == InitWith({FALSE}, {"ok"})

NextPage ==
  \/ \E matches \in BOOLEAN : \E animStops \in StopLists : PageOpen(matches, animStops)
  \/ calls < MaxCallsPage /\ LayoutChange
  \/ calls < MaxCallsPage /\ \E index \in {1, 2} : NarrativeScroll(index)
  \/ NarrativeIdle
  \/ NarrativeSync
  \/ calls < MaxCallsPage /\ ShowcaseToggle
  \/ \E d \in {FastFrameMs, SlowFrameMs} : Animate(d)

SpecPage == InitPage /\ [][NextPage]_vars

----------------------------------------------------------------------------
(* The properties checked, one block for each claim of the specification *)

\* a load whose asset is still loading while a newer load has been started
Superseded(v) == loads[v] = "awaitScene" /\ v < sv.loadVersion

\* the asset load of a superseded load(v) completes in this step
SupersededCompletes(v) == Superseded(v) /\ loads'[v] # "awaitScene"

C1_NeverCurrent ==
  /\ sv.viewer \in {0, sv.loadVersion}
  /\ \A v \in 1..MaxLoads :
       /\ loads[v] \in {"discarded", "sceneFailed"} => viewers[v].disposals > 0
       /\ (v = sv.loadVersion /\ loads[v] = "installed" /\ disposeCall # "done")
            => sv.viewer = v

C1_Completion ==
  \A v \in 1..MaxLoads :
    SupersededCompletes(v) =>
      /\ sv' = sv
      /\ viewers'[v].disposals = viewers[v].disposals + 1
      /\ loads'[v] \in {"discarded", "sceneFailed"}

\* C1: when load(B) is started while load(A)'s asset is still loading, the
\* completion of A's asset load (before or after B's) disposes A's viewer,
\* leaves the whole controller state (animation, blend, markers, current
\* viewer) as it was, A's viewer is never the current viewer, and once B is
\* installed the current viewer is B's.
C1_Theorem == [][C1_NeverCurrent /\ C1_NeverCurrent' /\ C1_Completion]_vars

\* load(1) was discarded after load(2) was installed, or before it
C1_Witness ==
  /\ loads[1] = "discarded"
  /\ loads[2] = "installed"
  /\ sv.viewer = 2
  /\ viewers[1].disposals = 1

\* the live bubbles (positions in the list) whose element is open
OpenBubbles(s) == {i \in 1..Len(s.floatingBubbles) : s.floatingBubbles[i].open}

\* bubble p of s is dissipating at nowMs: closed, hidden, and past its life,
\* so that the next bubble update removes it
Dissipating(s, p, nowMs) ==
  /\ ~Entry(s, p).open
  /\ Entry(s, p).opacity = 0
  /\ Entry(s, p).pointerEvents = "none"
  /\ nowMs - Entry(s, p).spawnMs >= Entry(s, p).lifeMs

C2_OneActive ==
  /\ Cardinality(OpenBubbles(sv)) <= 1
  /\ \A i \in 1..Len(sv.floatingBubbles) :
       sv.floatingBubbles[i].open <=> sv.floatingBubbles[i].id = sv.activeTextBubble

\* a click on the live text bubble id while the live bubble p # id is active
ClickOnSecond(id, p) ==
  /\ lastOp' = <<"click", id>>
  /\ calls' = calls + 1
  /\ p = sv.activeTextBubble
  /\ p # id
  /\ {p, id} \subseteq LiveIds(sv)
  /\ Entry(sv, id).kind = "text"

C2_Order ==
  lastOp'[1] = "click" =>
    LET id == lastOp'[2]
        p == sv.activeTextBubble
        s1 == DissipatePreviousActive(sv, id, now)  \* lines 768-771 are done
    IN  ClickOnSecond(id, p) =>
          /\ s1.activeTextBubble = 0
          /\ OpenBubbles(s1) = {}
          /\ Dissipating(s1, p, now)
          /\ sv'.activeTextBubble = id
          /\ Entry(sv', id).open
          /\ Dissipating(sv', p, now)

\* C2: in every reachable state at most one bubble is ACTIVE (open, the one
\* activeTextBubble names), whatever the spawns, clicks, pointer presses,
\* ticks, resets and performance-level changes; and a click on a text bubble
\* while another bubble is ACTIVE first puts that bubble into the dissipating
\* state (no bubble is ACTIVE then) and only then makes the clicked one ACTIVE.
C2_Theorem == [][C2_OneActive /\ C2_OneActive' /\ C2_Order]_vars

\* bubble 1 was activated, then bubble 2 was clicked: 1 is dissipating, 2 ACTIVE
C2_Witness ==
  /\ lastOp = <<"click", 2>>
  /\ calls = 4
  /\ sv.activeTextBubble = 2
  /\ 1 \in LiveIds(sv)
  /\ Entry(sv, 1).kind = "text"
  /\ Dissipating(sv, 1, now)
  /\ sv.dust[1] = 2
  /\ sv.dust[2] = 1

\* the capacity table of the specification
CapacityTable(level, mobile) ==
  CASE level = "high" /\ ~mobile -> 18
    [] level = "high" /\ mobile  -> 11
    [] level = "low" /\ ~mobile  -> 12
    [] level = "low" /\ mobile   -> 7

\* C3: after every operation (tick with or without a spawn, setPerformanceLevel,
\* click, reset, load) the number of live bubbles is at most the capacity of
\* the current performance level and device class: 18, 11, 12, 7.
C3_Theorem ==
  Len(sv.floatingBubbles) <= CapacityTable(sv.performanceLevel, sv.isMobileLike)

\* on a mobile device more than 7 bubbles were live when the level went to
\* low: the oldest were evicted and 7 are left
C3_Witness ==
  /\ lastOp = <<"setPerformanceLevel", "low">>
  /\ sv.isMobileLike
  /\ sv.bubbleSeq = 11
  /\ Len(sv.floatingBubbles) = 7
  /\ Head(sv.floatingBubbles).id = 5

\* this step is a call of update()
IsTick == lastOp'[1] = "tick" /\ now' > now

\* the time step dt of the tick's uniform update, in ms (line 500)
TickDtMs == Min(Max(now' - sv.lastUniformUpdateTimeMs, 0), 50)

C4_TickStep ==
  IsTick =>
    /\ 10 * (sv'.colorGainApplied - sv.colorGainApplied) <= 35 * TickDtMs
    /\ 10 * (sv.colorGainApplied - sv'.colorGainApplied) <= 180 * TickDtMs

\* C4 (amended): the change of colorGainApplied made by one tick is at most
\* 0.35*dt when it rises and 1.8*dt when it falls, dt being the time step of
\* that tick's update, whatever the desired gain is.  (setAnimation to none
\* and the completion of a load set the gain to 1 at once, between ticks.)
C4_Theorem == [][C4_TickStep]_vars

\* a tick in mode zwave has raised the gain by the full 0.35*dt
C4_Witness ==
  /\ lastOp = <<"tick", AnimGapMs>>
  /\ sv.animationMode = "zwave"
  /\ sv.customUniforms # NoUniforms
  /\ sv.customUniforms.time = 2 * AnimGapMs
  /\ sv.pointCloudEnabled
  /\ sv.colorGainApplied > One

C4_BetweenTicks ==
  (IsTick /\ sv.tickGain # 0) =>
    /\ 10 * (sv'.colorGainApplied - sv.tickGain) <= 35 * (now' - now)
    /\ 10 * (sv.tickGain - sv'.colorGainApplied) <= 180 * (now' - now)

\* C4 as stated: between two consecutive ticks the gain changes by at most
\* 0.35*dt upwards and 1.8*dt downwards, dt the time between the two ticks
C4_Original == [][C4_BetweenTicks]_vars

\* the live bubbles of s (positions) that at nowMs have lifeRatio >= 1 and
\* are not ACTIVE
ExpiredLive(s, nowMs) ==
  {i \in 1..Len(s.floatingBubbles) :
     /\ nowMs - s.floatingBubbles[i].spawnMs >= s.floatingBubbles[i].lifeMs
     /\ s.floatingBubbles[i].id # s.activeTextBubble}

\* the tick of this step is not held back by the low-performance throttle
\* (28 ms since the last bubble update)
NotThrottled == sv.performanceLevel # "low" \/ now' - sv.lastBubbleTickMs >= 28

C5_TickStep == (IsTick /\ NotThrottled) => ExpiredLive(sv', now') = {}

\* C5 (amended): a live bubble whose lifeRatio is >= 1 and that is not ACTIVE
\* is removed from the list by the next tick that runs the bubble update: at
\* level high the very next tick, at level low the first tick at least 28 ms
\* after the last bubble update.
C5_Theorem == [][C5_TickStep]_vars

\* bubble 1 was never dissipated and is gone while the younger bubble 2 is
\* still live: a tick removed it when its life was over
C5_Witness ==
  /\ lastOp[1] = "tick"
  /\ sv.bubbleSeq = 2
  /\ LiveIds(sv) = {2}
  /\ sv.dust[1] = 0
  /\ now - Entry(sv, 2).spawnMs < Entry(sv, 2).lifeMs

C5_EveryTick == IsTick => ExpiredLive(sv', now') = {}

\* C5 as stated: the very next tick removes it, at every performance level
C5_Original == [][C5_EveryTick]_vars

\* the alias table of the specification, on the lower-cased, trimmed name
AliasImage(name) ==
  LET n == Trim(ToLowerCase(name))
  IN  CASE n \in {<<"n","o","n","e">>, <<"o","f","f">>} -> "none"
        [] n \in {<<"z"," ","w","a","v","e">>, <<"z","_","w","a","v","e">>,
                  <<"z","-","w","a","v","e">>, <<"z","w","a","v","e">>} -> "wave"
        [] n = <<"s","w","i","r","l">> -> "swirl"
        [] n = <<"n","o","i","s","e">> -> "noise"
        [] n \in {<<"b","r","e","a","t","h">>, <<"b","r","e","a","t","h","e">>} -> "breathe"
        [] n = <<"e","x","p","l","o","d","e">> -> "explode"
        [] OTHER -> "none"

\* the name the specification gives to a mode of the code
CanonicalMode(mode) ==
  CASE mode = "zwave" -> "wave"
    [] mode = "breath" -> "breathe"
    [] OTHER -> mode

\* C6: after setAnimation(name) the mode is the alias-table image of the
\* lower-cased, trimmed name, and none for every other name, the empty one
\* included: "Z-Wave" gives wave, "bogus" gives none.
C6_Original ==
  lastOp[1] = "setAnimation" => CanonicalMode(sv.animationMode) = AliasImage(lastOp[2])

\* the morph clock is running and published: a mode other than none, a
\* patched material
ClockRuns(s) == s.animationMode # "none" /\ s.customUniforms # NoUniforms

\* the place in the loop of 3.2 s, in ms
LoopMs(elapsedMs) == elapsedMs % 3200

\* the triangle wave of the phase: up to 1 at half the loop and down again
TriangleOfPhase(elapsedMs) ==
  LET phase == (LoopMs(elapsedMs) * One) \div 3200
  IN  IF 2 * LoopMs(elapsedMs) < 3200 THEN 2 * phase ELSE 2 * (One - phase)

\* C7: for a mode other than none the morph scalar at elapsed time t is
\* easeInOutCubic of the triangle wave of the loop phase: it is periodic with
\* period 3.2 s, 0 at t = 0, 1 at t = 1.6 s, within [0,1] at every t, and
\* dispersing holds exactly when the phase is below 0.5.
C7_Theorem ==
  ClockRuns(sv) =>
    LET t == sv.customUniforms.time
        clock == MorphClock(sv.animationMode, t)
    IN  /\ sv.customUniforms.morph = clock.morph
        /\ clock.morph = easeInOutCubic(TriangleOfPhase(t))
        /\ clock.morph >= 0 /\ clock.morph <= One
        /\ LoopMs(t) = 0 => clock.morph = 0
        /\ LoopMs(t) = 1600 => clock.morph = One
        /\ clock.dispersing <=> 2 * LoopMs(t) < 3200
        /\ MorphClock(sv.animationMode, t + 3200) = clock

\* a tick in the second loop, at 1.6 s into it: the published morph is 1
C7_Witness ==
  /\ lastOp[1] = "tick"
  /\ ClockRuns(sv)
  /\ sv.customUniforms.time = 3200 + 1600
  /\ sv.customUniforms.morph = One

\* the read-back of the frame is unavailable, or every read throws
ProbeFails == gl \in {"none", "throws"}

\* bubble b is in the middle of its life at nowMs: bright enough to be shown
MidLife(b, nowMs) ==
  2 * (nowMs - b.spawnMs) >= b.lifeMs /\ nowMs - b.spawnMs < b.lifeMs

\* C8: when the read-back of the frame is unavailable or every read throws,
\* the occlusion probe answers "not covered": every bubble has overModel
\* false, was put in place without a push, and is shown (opaque, clickable)
\* in the middle of its life although the model is behind it.
C8_Theorem ==
  ProbeFails =>
    \A i \in 1..Len(sv.floatingBubbles) :
      LET b == sv.floatingBubbles[i]
      IN  /\ ~b.overModel
          /\ b.pushed = 0
          /\ (lastOp[1] = "tick" /\ MidLife(b, now))
               => (b.opacity > 0 /\ b.pointerEvents = "auto")

\* every read throws, a tick has probed bubble 1 in front of the model, and
\* the bubble is shown
C8_Witness ==
  /\ gl = "throws"
  /\ lastOp[1] = "tick"
  /\ 1 \in LiveIds(sv)
  /\ MidLife(Entry(sv, 1), now)
  /\ Entry(sv, 1).lastOverlapCheckMs = now
  /\ ~Entry(sv, 1).overModel
  /\ Entry(sv, 1).opacity > 0

\* C9: whenever the mode is none, right after setAnimation has returned and
\* after every tick, pointCloudEnabled is false, also while a load is in
\* flight and after a load has failed.
C9_Original ==
  (lastOp[1] \in {"setAnimation", "tick"} /\ sv.animationMode = "none")
    => ~sv.pointCloudEnabled

\* C10: while the mode is none (from the return of setAnimation on, and
\* after every later tick) colorGainApplied and scaleApplied are 1, both
\* bridges are inactive, and the morph and the strength that are published
\* are 0.
C10_Theorem ==
  sv.animationMode = "none" =>
    /\ sv.colorGainApplied = One
    /\ sv.scaleApplied = One
    /\ ~sv.luminanceBridgeActive
    /\ ~sv.scaleBridgeActive
    /\ (sv.customUniforms # NoUniforms /\ lastOp[1] \in {"setAnimation", "tick"})
         => (sv.customUniforms.morph = 0 /\ sv.customUniforms.strength = 0)

\* setAnimation("none") has returned on a loaded model whose gain was not 1
\* at the last tick
C10_Witness ==
  /\ lastOp = <<"setAnimation", N_none>>
  /\ sv.animationMode = "none"
  /\ sv.tickGain \notin {0, One}
  /\ sv.colorGainApplied = One
  /\ sv.customUniforms # NoUniforms
  /\ sv.customUniforms.morph = 0


\* the asset of the last load is displayed and its material carries the
\* displacement kernel: the ticks of s run the morph pipeline
AssetLoaded(s) == ~s.disposed /\ splatMesh(s) /\ s.customUniforms # NoUniforms

\* this step is a tick that runs the morph pipeline in a mode other than none
IsMorphTick == IsTick /\ AssetLoaded(sv) /\ sv.animationMode # "none"

\* the morph clock of the tick of this step
TickClock == MorphClock(sv.animationMode, now' - sv.animationStartTime)

\* the tick of this step is dispersing with morph >= 0.38
TickEnters == TickClock.dispersing /\ TickClock.morph >= 3800

\* pointCloudEnabled goes from false to true in this step
PointCloudTurnsOn == ~sv.pointCloudEnabled /\ sv'.pointCloudEnabled

C11_Step ==
  /\ IsMorphTick =>
       /\ PointCloudTurnsOn <=> (~sv.pointCloudEnabled /\ TickEnters)
       /\ TickEnters => sv'.pointCloudEnabled
  /\ PointCloudTurnsOn => (IsMorphTick /\ TickEnters)

\* C11: with an asset loaded and a mode other than none, pointCloudEnabled
\* goes from false to true in a tick exactly when that tick is dispersing
\* with morph >= 0.38; after every such tick pointCloudEnabled is true; and
\* no other step (setAnimation, load, dispose, bubbles) sets it to true.
C11_Theorem == [][C11_Step]_vars

\* the first tick past the enter threshold has switched to the point cloud
C11_Witness ==
  /\ lastOp[1] = "tick"
  /\ AssetLoaded(sv)
  /\ sv.animationMode = "zwave"
  /\ sv.customUniforms.time = 4 * MorphGapMs
  /\ sv.customUniforms.morph >= 3800
  /\ sv.pointCloudEnabled

\* the tick of this step is reassembling with morph <= 0.34
TickReveals == ~TickClock.dispersing /\ TickClock.morph <= 3400

C12_Step == (IsMorphTick /\ TickReveals) => ~sv'.pointCloudEnabled

\* C12: with an asset loaded and a mode other than none, after every tick
\* that is reassembling with morph <= 0.34, pointCloudEnabled is false,
\* whatever it was before the tick, also while morph is above the exit
\* threshold 0.02.
C12_Theorem == [][C12_Step]_vars

\* the first reassembling tick at or below 0.34 (the tick before it was above,
\* in point-cloud mode): morph is still above 0.02 and the point cloud is off
C12_Witness ==
  /\ lastOp[1] = "tick"
  /\ AssetLoaded(sv)
  /\ sv.animationMode = "zwave"
  /\ sv.customUniforms.time = 13 * MorphGapMs
  /\ sv.customUniforms.morph > 200
  /\ sv.customUniforms.morph <= 3400
  /\ ~sv.pointCloudEnabled

\* pointCloudEnabled goes from true to false in this step
PointCloudTurnsOff == sv.pointCloudEnabled /\ ~sv'.pointCloudEnabled

\* the instance of the tick of this step right after lines 567-592
AtSwitch ==
  SwitchRepresentation([sv EXCEPT !.lastUniformUpdateTimeMs = now'],
                       InModelRevealWindow(sv.animationMode, TickClock.dispersing,
                                           TickClock.morph),
                       TickClock.dispersing, TickClock.morph,
                       TargetPointCloud(sv, TickClock.dispersing, TickClock.morph))

\* both bridges of s are armed from the gain and the scale of the instance p
ArmedFrom(s, p) ==
  /\ s.luminanceBridgeActive
  /\ s.luminanceBridgeElapsed = 0
  /\ s.luminanceBridgeFrom = p.colorGainApplied
  /\ s.scaleBridgeActive
  /\ s.scaleBridgeElapsed = 0
  /\ s.scaleBridgeFrom = Min(p.scaleApplied, 9000)

\* the bridge fields of s
Bridges(s) ==
  << s.luminanceBridgeActive, s.luminanceBridgeFrom, s.luminanceBridgeElapsed,
     s.scaleBridgeActive, s.scaleBridgeFrom, s.scaleBridgeElapsed >>

\* what an arming in this step leaves behind when the step is over: the start
\* values and the elapsed times
ArmingRecorded ==
  /\ sv'.luminanceBridgeFrom = sv.colorGainApplied
  /\ sv'.luminanceBridgeElapsed = 0
  /\ sv'.scaleBridgeFrom = Min(sv.scaleApplied, 9000)
  /\ sv'.scaleBridgeElapsed = 0

C13_TickStep ==
  IsMorphTick =>
    IF PointCloudTurnsOff
      THEN ArmedFrom(AtSwitch, sv) /\ ArmingRecorded
      ELSE Bridges(AtSwitch) = Bridges(sv)

\* C13 (amended): every change of pointCloudEnabled from true to false that a
\* tick makes while the mode is not none arms both bridges, once, at the
\* switch: each is active with elapsed = 0, the luminance bridge starting from
\* the colorGainApplied of that moment and the scale bridge from
\* min(scaleApplied, 0.9); a tick that makes no such change arms nothing.
\* (setAnimation and the completion of a load clear pointCloudEnabled without
\* arming a bridge.)
C13_Theorem == [][C13_TickStep]_vars

\* the tick 2.8 s into the loop has left the point cloud and armed the
\* bridges from a gain above 1
C13_Witness ==
  /\ lastOp[1] = "tick"
  /\ AssetLoaded(sv)
  /\ sv.animationMode = "zwave"
  /\ sv.customUniforms.time = 7 * AnimGapMs
  /\ ~sv.pointCloudEnabled
  /\ sv.luminanceBridgeFrom > One
  /\ sv.luminanceBridgeElapsed = 0
  /\ sv.scaleBridgeFrom = 9000

C13_EveryChange ==
  (PointCloudTurnsOff /\ sv.animationMode # "none" /\ sv'.animationMode # "none")
    => ArmingRecorded

\* C13 as stated: every change of pointCloudEnabled from true to false while
\* the mode is not none arms both bridges
C13_Original == [][C13_EveryChange]_vars

\* this step is a call of setAnimation that changes the mode
ModeChanges ==
  /\ lastOp'[1] = "setAnimation"
  /\ calls' = calls + 1
  /\ sv'.animationMode # sv.animationMode

\* the morph at elapsedMs after the start of the loop
MorphFromStart(mode, elapsedMs) ==
  IF mode = "none" THEN 0 ELSE easeInOutCubic(TriangleOfPhase(elapsedMs))

C14_Step ==
  /\ ModeChanges =>
       /\ sv'.animationStartTime = now'
       /\ ~sv'.luminanceBridgeActive
       /\ ~sv'.scaleBridgeActive
       /\ sv'.customUniforms # NoUniforms =>
            (sv'.customUniforms.time = 0 /\ sv'.customUniforms.morph = 0)
  /\ (IsTick /\ lastOp[1] = "setAnimation" /\ AssetLoaded(sv)) =>
       /\ sv'.customUniforms.time = now' - now
       /\ sv'.customUniforms.morph = MorphFromStart(sv.animationMode, now' - now)

\* C14: after every call of setAnimation that changes the mode (to none or to
\* another mode) the morph clock is restarted (the elapsed time is 0 and the
\* next tick computes morph from the start of the loop) and neither bridge
\* is active.
C14_Theorem == [][C14_Step]_vars

\* setAnimation("swirl") in mode zwave, after ticks that raised the gain
\* above 1: the clock is back at 0
C14_Witness ==
  /\ lastOp = <<"setAnimation", N_swirl>>
  /\ calls = 3
  /\ now > 0
  /\ sv.animationMode = "swirl"
  /\ sv.tickGain > One
  /\ sv.animationStartTime = now
  /\ sv.customUniforms # NoUniforms
  /\ sv.customUniforms.time = 0

\* the RenderBlendState of s is neutral
Neutral(s) ==
  /\ s.colorGainApplied = One
  /\ s.scaleApplied = One
  /\ ~s.pointCloudEnabled
  /\ ~s.luminanceBridgeActive
  /\ ~s.scaleBridgeActive

\* the most recently started load has not succeeded: it is suspended (on the
\* disposal of the previous viewer or on the asset) or its asset has failed
LoadPending ==
  /\ sv.loadVersion > 0
  /\ loads[sv.loadVersion] \in {"awaitPrevDispose", "awaitScene", "sceneFailed"}

\* C15: from the moment load() is called (before it first suspends) until the
\* load succeeds, and for good when it fails, the RenderBlendState is neutral:
\* colorGainApplied = 1, scaleApplied = 1, pointCloudEnabled = false, both
\* bridges inactive.
C15_Original == LoadPending => Neutral(sv)

\* the most recently started load has succeeded
LoadSucceeded == sv.loadVersion > 0 /\ loads[sv.loadVersion] = "installed"

\* s has no marker and will spawn none
NoMarkers(s) ==
  /\ s.floatingBubbles = <<>>
  /\ s.activeTextBubble = 0
  /\ s.nextBubbleSpawnMs = Infinity

C16_Inv == (sv.bubbleLayer = NULL \/ ~LoadSucceeded) => NoMarkers(sv)

C16_Step ==
  /\ (IsTick /\ (sv.bubbleLayer = NULL \/ ~LoadSucceeded)) => sv'.bubbleSeq = sv.bubbleSeq
  /\ (lastOp'[1] = "load" /\ calls' = calls + 1 /\ ~sv.disposed) => NoMarkers(sv')

\* C16: markers exist only while a presentation surface is configured and
\* the most recently started load has succeeded: whenever the surface is
\* null, or no load has succeeded (one is in flight, or the last one failed),
\* the list of live markers is empty, no marker is ACTIVE, the next spawn
\* time is never, and no tick spawns a marker; a call of load() establishes
\* this before it returns to its caller.
C16_Theorem == [][C16_Inv /\ C16_Inv' /\ C16_Step]_vars

\* load() was called while a marker of the previous asset was live: the
\* markers are gone though the surface is still configured
C16_Witness ==
  /\ lastOp[1] = "load"
  /\ sv.loadVersion = 2
  /\ sv.bubbleLayer = "layer"
  /\ sv.bubbleSeq = 1
  /\ sv.dust[1] = 0
  /\ now = FrameGapMs
  /\ NoMarkers(sv)

\* the asset of load(v) fails in this step: load(v) rejects
AssetFails(v) == loads[v] = "awaitScene" /\ loads'[v] = "sceneFailed"

C17_Inv ==
  \A v \in 1..MaxLoads :
    /\ loads[v] = "sceneFailed" => (viewers[v].disposals > 0 /\ sv.viewer # v)
    /\ loads[v] \in {"awaitScene", "sceneFailed"} => sv.viewer # v

C17_Step ==
  \A v \in 1..MaxLoads :
    AssetFails(v) =>
      /\ viewers[v].created
      /\ viewers'[v].disposals = viewers[v].disposals + 1
      /\ sv' = sv

\* C17: when the asset of a load fails, load() rejects, the viewer created
\* for that load is disposed, that viewer is not the current viewer before
\* or after, and the failure leaves the controller as it was: the animation
\* mode, every marker, the current viewer.
C17_Theorem == [][C17_Inv /\ C17_Inv' /\ C17_Step]_vars

\* the asset of load(1) has failed after load(2) was installed, the mode set
\* and a marker spawned: mode, marker and viewer 2 are still there
C17_Witness ==
  /\ lastOp[1] = "loadSettle"
  /\ lastOp[2] = 1
  /\ loads[1] = "sceneFailed"
  /\ loads[2] = "installed"
  /\ viewers[1].disposals = 1
  /\ sv.viewer = 2
  /\ sv.animationMode = "zwave"
  /\ Len(sv.floatingBubbles) = 1

\* load(v) has rejected: the catch block of lines 256-259 has rethrown
LoadRejected(v) == loads[v] \in {"sceneFailed", "kernelFailed"}

\* C18: when the kernel cannot be installed because the shader anchors are
\* missing, the failure is fatal to animation only: the mode becomes none,
\* the loaded asset stays displayed (its viewer is current and not disposed),
\* and the failure is not raised to the caller of load().
C18_Original ==
  \A v \in 1..MaxLoads :
    (loads[v] = "kernelFailed" /\ v = sv.loadVersion /\ ~sv.disposed) =>
      /\ sv.animationMode = "none"
      /\ sv.viewer = v
      /\ viewers[v].disposals = 0
      /\ ~LoadRejected(v)

\* the tick of this step runs the bubble update while every read-back throws
ThrowingBubbleTick ==
  /\ IsTick
  /\ gl = "throws"
  /\ sv.bubbleLayer # NULL
  /\ sv.bubblesEnabledForModel
  /\ NotThrottled

C19_Step ==
  /\ ThrowingBubbleTick =>
       /\ ExpiredLive(sv', now') = {}
       /\ \A i \in 1..Len(sv'.floatingBubbles) :
            LET b == sv'.floatingBubbles[i]
            IN  MidLife(b, now') => (b.lastOverlapCheckMs = now' /\ b.opacity > 0)
  /\ (IsTick /\ gl = "throws" /\ AssetLoaded(sv)) =>
       /\ sv'.lastUniformUpdateTimeMs = now'
       /\ sv'.customUniforms.time = now' - sv.animationStartTime

SomeActive(s) == s.activeTextBubble # 0

C20_Step ==
  /\ SomeActive(sv) => sv.nextBubbleSpawnMs = Infinity
  /\ (IsTick /\ SomeActive(sv)) =>
       /\ sv'.bubbleSeq = sv.bubbleSeq
       /\ LiveIds(sv') \subseteq LiveIds(sv)

\* C20: no marker is spawned in a tick during which a marker is ACTIVE,
\* however long the marker stays ACTIVE and whatever spawn time had been
\* scheduled before the activation: the activation puts the next spawn
\* time to never.
C20_Theorem == [][C20_Step]_vars

\* marker 1 has been ACTIVE over two ticks and beyond its life, and it is
\* still the only marker ever spawned
C20_Witness ==
  /\ lastOp[1] = "tick"
  /\ sv.activeTextBubble = 1
  /\ LiveIds(sv) = {1}
  /\ Entry(sv, 1).open
  /\ sv.bubbleSeq = 1
  /\ now - Entry(sv, 1).spawnMs >= 2 * LongGapMs
  /\ now - Entry(sv, 1).spawnMs > Entry(sv, 1).lifeMs

\* a marker of s is ACTIVE: activeTextBubble names a live marker
ActiveLive(s) == s.activeTextBubble # 0 /\ s.activeTextBubble \in LiveIds(s)

\* in this step the ACTIVE marker stops being ACTIVE and no marker is made
\* ACTIVE, while a surface is configured and a model is loaded
LeavesActive ==
  /\ ActiveLive(sv)
  /\ ~ActiveLive(sv')
  /\ sv'.bubbleLayer # NULL
  /\ sv'.bubblesEnabledForModel

C21_Resumes == LeavesActive => sv'.nextBubbleSpawnMs < Infinity

\* C21: whenever the ACTIVE marker stops being ACTIVE (an outside pointer
\* press, or its removal from the list in any way) while a surface is
\* configured and a model is loaded, spawn scheduling resumes: the next
\* spawn time becomes finite, so that later ticks spawn a marker without
\* further user input.
C21_Original == [][C21_Resumes]_vars

\* this step is a click on a live text marker
ClickOnText ==
  /\ lastOp'[1] = "click"
  /\ calls' = calls + 1
  /\ lastOp'[2] \in LiveIds(sv)
  /\ Entry(sv, lastOp'[2]).kind = "text"

\* the tick of this step runs the marker update
MarkerUpdateRuns ==
  IsTick /\ ~sv.disposed /\ sv.bubbleLayer # NULL /\ sv.bubblesEnabledForModel /\ NotThrottled

C22_Step ==
  /\ ClickOnText =>
       LET id == lastOp'[2]
       IN  /\ sv'.activeTextBubble = id
           /\ LiveIds(sv') = LiveIds(sv)
           /\ Entry(sv', id).open
           /\ \A p \in LiveIds(sv') \ {id} : Dissipating(sv', p, now')
           /\ sv'.nextBubbleSpawnMs = Infinity
  /\ MarkerUpdateRuns =>
       \A p \in LiveIds(sv) :
         (p # sv.activeTextBubble /\ Dissipating(sv, p, now)) => p \notin LiveIds(sv')
  /\ (IsTick /\ ActiveLive(sv)) =>
       /\ sv'.activeTextBubble = sv.activeTextBubble
       /\ ActiveLive(sv')

\* C22: a click on a live text marker makes it ACTIVE, puts every other live
\* marker into the dissipating state (the next marker update removes each),
\* and sets the next spawn time to never; while it is ACTIVE no tick removes
\* the marker, however far its age exceeds its life.
C22_Theorem == [][C22_Step]_vars

\* marker 1 was clicked while marker 2 was live: the next tick has removed
\* marker 2 and kept marker 1, ACTIVE beyond its life
C22_Witness ==
  /\ lastOp[1] = "tick"
  /\ sv.activeTextBubble = 1
  /\ sv.bubbleSeq = 2
  /\ LiveIds(sv) = {1}
  /\ sv.dust[2] = 1
  /\ sv.dust[1] = 0
  /\ Entry(sv, 1).open
  /\ now - Entry(sv, 1).spawnMs > Entry(sv, 1).lifeMs
  /\ sv.nextBubbleSpawnMs = Infinity

\* C23: the dissipation burst is one-shot: for every sequence of clicks,
\* activations, dismissals and ticks, each marker triggers its burst at most
\* once between its creation and its removal.
C23_Original == \A id \in BubbleIds : sv.dust[id] <= 1

\* C24: a live marker that is not ACTIVE leaves ALIVE for DISSIPATING, and is
\* then removed, when its life expires, when it is clicked for dismissal,
\* when the occlusion probe reports it over the model, or when its
\* edge-faded alpha becomes invisible: after a tick no marker that the probe
\* has found over the model is still living, merely hidden.
C24_Original ==
  lastOp[1] = "tick" =>
    \A i \in 1..Len(sv.floatingBubbles) :
      LET b == sv.floatingBubbles[i]
      IN  (b.overModel /\ b.id # sv.activeTextBubble) => Dissipating(sv, b.id, now)

----------------------------------------------------------------------------
(* C25: the interval between two occlusion probes of a bubble *)

\* the bubbles that are in the list before and after the step
StayingIds == LiveIds(sv) \cap LiveIds(sv')

\* lines 1032-1035: the step probes the bubble again, after an earlier probe
ProbedAgain(id) ==
  /\ Entry(sv, id).lastOverlapCheckMs > 0
  /\ Entry(sv', id).lastOverlapCheckMs # Entry(sv, id).lastOverlapCheckMs

\* the time since the bubble's last probe, in tenths of a ms
SinceLastProbeTenths(id) == 10 * (now' - Entry(sv, id).lastOverlapCheckMs)

\* 36 ms on desktop and 120 ms on mobile, times lowFactorTenths / 10 at level low
ProbeIntervalTenths(lowFactorTenths) ==
  (IF sv.isMobileLike THEN 120 ELSE 36)
    * (IF sv.performanceLevel = "low" THEN lowFactorTenths ELSE 10)

ProbesApart(lowFactorTenths) ==
  IsTick =>
    \A id \in StayingIds :
      /\ ProbedAgain(id) => SinceLastProbeTenths(id) >= ProbeIntervalTenths(lowFactorTenths)
      /\ Entry(sv', id).lastOverlapCheckMs = Entry(sv, id).lastOverlapCheckMs
           => Entry(sv', id).overModel = Entry(sv, id).overModel

\* C25 (amended): two consecutive occlusion probes of a bubble are at least
\* 36 ms apart on desktop and 120 ms apart on mobile, and at least 1.9 times
\* that (68.4 ms / 228 ms) at performance level low; a tick that does not
\* probe a bubble leaves its cached overModel value as the last probe set it.
C25_Theorem == [][ProbesApart(19)]_vars

\* a bubble probed at level low less than twice the base interval after its
\* last probe, the model being behind it then and not behind it now
C25_Witness ==
  /\ lastOp[1] = "tick"
  /\ sv.performanceLevel = "low"
  /\ \E i \in 1..Len(sv.floatingBubbles) :
       LET b == sv.floatingBubbles[i]
       IN  /\ b.lastOverlapCheckMs = now
           /\ b.lastOverlapCheckMs > 3 * ProbeGapMs + b.spawnMs + 300
           /\ ~b.overModel

\* C25 as the specification states it: at performance level low two
\* consecutive probes of a bubble are at least 72 ms (desktop) and 240 ms
\* (mobile) apart.
C25_Original == [][ProbesApart(20)]_vars

----------------------------------------------------------------------------
(* C26: the spawn schedule *)

\* lines 924-925: the step creates a bubble
Spawns == sv'.bubbleSeq > sv.bubbleSeq

\* lines 753-764: the step dismisses the active bubble
Dismisses == lastOp'[1] = "pointerDown" /\ sv.activeTextBubble # 0 /\ sv'.activeTextBubble = 0

\* the step sets a finite next-spawn time
Schedules ==
  /\ sv'.nextBubbleSpawnMs # sv.nextBubbleSpawnMs
  /\ sv'.nextBubbleSpawnMs # Infinity

\* gapMs, a gap rounded up to whole ms, is in [minGap, maxGap]: 230 ms and
\* 520 ms, times 1.2 and 1.3 on mobile, times 1.28 at level low
InGapRange(s, gapMs) ==
  LET minGap == 230 * (IF s.isMobileLike THEN 120 ELSE 100)
                    * (IF s.performanceLevel = "low" THEN 128 ELSE 100)
      maxGap == 520 * (IF s.isMobileLike THEN 130 ELSE 100)
                    * (IF s.performanceLevel = "low" THEN 128 ELSE 100)
  IN  10000 * gapMs >= minGap /\ 10000 * (gapMs - 1) < maxGap

C26_Step ==
  /\ ((Spawns \/ Dismisses) /\ BubblesRunning(sv')) =>
       InGapRange(sv', sv'.nextBubbleSpawnMs - now')
  /\ (Schedules /\ ~Spawns /\ ~Dismisses) => sv'.nextBubbleSpawnMs = now' + 320
  /\ (Spawns /\ sv.lastSpawnMs >= 0) => now' >= sv.lastSpawnMs + 230

\* C26 (amended): the next-spawn time set after a spawn and after a dismissal
\* is now + a gap in [minGap, maxGap], with minGap = 230 ms and maxGap = 520 ms
\* scaled up on mobile and further at level low; a reset and the end of a load
\* set it to now + 320 ms; hence after a bubble is spawned at time t no other
\* bubble is spawned before t + 230 ms, for any interleaving of ticks,
\* dismissals, resets and performance-level changes.
C26_Theorem == [][C26_Step]_vars

\* a bubble spawned exactly 230 ms after the one before it, both in the list
C26_Witness ==
  /\ lastOp[1] = "tick"
  /\ sv.lastSpawnMs = now
  /\ \E i, j \in 1..Len(sv.floatingBubbles) :
       /\ sv.floatingBubbles[j].spawnMs = now
       /\ sv.floatingBubbles[i].spawnMs = now - 230

\* C26 as the specification states it: each next-spawn time that is set is
\* now + a gap in [minGap, maxGap].
C26_Original == [][Schedules => InGapRange(sv', sv'.nextBubbleSpawnMs - now')]_vars

----------------------------------------------------------------------------
(* C27: the text bubbles in the list *)

LiveTexts(s) == {id \in LiveIds(s) : Entry(s, id).kind = "text"}

C27_Inv ==
  /\ Cardinality(LiveTexts(sv)) <= 6
  /\ sv.bubbleMessages = <<>> => LiveTexts(sv) = {}

C27_Step ==
  (Spawns /\ sv.bubbleMessages = <<>>) =>
    /\ sv'.bubbleSeq \in LiveIds(sv')
    /\ Entry(sv', sv'.bubbleSeq).kind = "plain"

\* C27: the list never holds more than 6 text bubbles, and a bubble spawned
\* while the text pool is empty is plain, whatever the draw.
C27_Theorem == [][C27_Inv /\ C27_Inv' /\ C27_Step]_vars

\* the list holds 6 text bubbles and the bubble just spawned is plain although
\* the pool is not empty and the draw was for text
C27_Witness ==
  /\ lastOp[1] = "tick"
  /\ Cardinality(LiveTexts(sv)) = 6
  /\ sv.bubbleMessages # <<>>
  /\ sv.lastSpawnMs = now
  /\ sv.bubbleSeq \in LiveIds(sv) \ LiveTexts(sv)

----------------------------------------------------------------------------
(* C28: the eviction at the capacity of the list *)

\* the ids of the list, in its order
IdsOf(bubbles) == [i \in 1..Len(bubbles) |-> bubbles[i].id]

\* the list is in the order of the spawns: the ids grow
SpawnOrder(s) ==
  \A i, j \in 1..Len(s.floatingBubbles) :
    i < j => s.floatingBubbles[i].id < s.floatingBubbles[j].id

\* the last n bubbles of the list
Newest(bubbles, n) == SubSeq(bubbles, Len(bubbles) - n + 1, Len(bubbles))

IsLevelChange == lastOp'[1] = "setPerformanceLevel" /\ calls' > calls

C28_Step ==
  /\ IsLevelChange =>
       LET limit == getActiveMaxFloatingBubbles(sv')
       IN  sv'.floatingBubbles = Newest(sv.floatingBubbles, Min(Len(sv.floatingBubbles), limit))
  /\ Spawns =>
       /\ Len(sv'.floatingBubbles) <= getActiveMaxFloatingBubbles(sv')
       /\ \A id \in LiveIds(sv) \ LiveIds(sv') : Expired(sv, Entry(sv, id), now')
       /\ sv'.floatingBubbles[Len(sv'.floatingBubbles)].id = sv'.bubbleSeq

\* C28: the list is in the order of the spawns; a setPerformanceLevel that
\* lowers the capacity below the length of the list removes bubbles from its
\* front until the length is the capacity, and the others stay as they are,
\* in their order; a spawn puts the new bubble at the end of the list and
\* leaves it no longer than the capacity, removing no bubble that has not
\* expired.
C28_Theorem == [][SpawnOrder(sv) /\ SpawnOrder(sv') /\ C28_Step]_vars

\* setPerformanceLevel("low") has removed the two oldest of nine bubbles
C28_Witness ==
  /\ lastOp[1] = "setPerformanceLevel"
  /\ sv.performanceLevel = "low"
  /\ Len(sv.floatingBubbles) = getActiveMaxFloatingBubbles(sv)
  /\ IdsOf(sv.floatingBubbles) = [i \in 1..7 |-> i + 2]

----------------------------------------------------------------------------
(* C29: the state that setFloatingBubbles leaves *)

\* a model is loaded: the current viewer holds the asset of a load that has
\* succeeded, and has not been disposed
ModelLoaded ==
  /\ sv.viewer # 0
  /\ loads[sv.viewer] = "installed"
  /\ viewers[sv.viewer].disposals = 0

IsSetFloatingBubbles == lastOp'[1] = "setFloatingBubbles" /\ calls' > calls

\* C29: after setFloatingBubbles(layer, messages) returns, the list is empty
\* (no bubble from before the call is live), no bubble is ACTIVE, and the next
\* spawn time is finite if and only if the layer is not null and a model is
\* loaded.
C29_Original ==
  [][IsSetFloatingBubbles =>
       /\ sv'.floatingBubbles = <<>>
       /\ sv'.activeTextBubble = 0
       /\ (sv'.nextBubbleSpawnMs # Infinity) <=> (sv'.bubbleLayer # NULL /\ ModelLoaded')]_vars

----------------------------------------------------------------------------
(* C30: dispose() a second time, and the controller after dispose() *)

\* this step is a call of dispose(), of load()
IsDisposeCall == lastOp'[1] = "dispose" /\ calls' > calls
IsLoadCall == lastOp'[1] = "load" /\ calls' > calls

\* the step leaves the controller, the viewers and the loads as they are
NothingChanges ==
  /\ [sv' EXCEPT !.tickGain = sv.tickGain] = sv
  /\ UNCHANGED <<viewers, loads, disposeCall>>

C30_Step ==
  sv.disposed =>
    /\ IsDisposeCall => NothingChanges
    /\ IsTick => NothingChanges
    /\ IsLoadCall => NothingChanges
    /\ sv'.disposed

\* C30: a call of dispose() on a disposed controller changes nothing and
\* disposes no viewer; after the first dispose() a tick changes nothing and
\* spawns nothing, the list of bubbles is empty, load() starts no load, and
\* the controller stays disposed.
C30_Theorem ==
  [][/\ C30_Step
     /\ sv.disposed => sv.floatingBubbles = <<>>
     /\ sv'.disposed => sv'.floatingBubbles = <<>>]_vars

\* dispose() has been called a second time while the first call waits for the
\* viewer: the viewer has been disposed once
C30_Witness ==
  /\ lastOp[1] = "dispose"
  /\ lastOp[2] = TRUE
  /\ disposeCall = "awaitViewer"
  /\ sv.viewer # 0
  /\ viewers[sv.viewer].disposals = 1

----------------------------------------------------------------------------
(* C31: the range of the applied gain and scale *)

\* C31: in every reachable state colorGainApplied is in [0.62, 1.34] and
\* scaleApplied is in [0.84, 1.7464], whatever the ticks, mode changes and
\* loads before it.
C31_Theorem ==
  /\ 6200 <= sv.colorGainApplied /\ sv.colorGainApplied <= 13400
  /\ 8400 <= sv.scaleApplied /\ sv.scaleApplied <= 17464

\* ticks at the start of the reveal window, one loop after the other, have
\* brought the gain below 0.7 and the scale below 0.86
C31_Witness ==
  /\ lastOp[1] = "tick"
  /\ sv.animationMode # "none"
  /\ sv.colorGainApplied < 7000
  /\ sv.scaleApplied < 8600

----------------------------------------------------------------------------
(* C32: the output of the displacement kernel at morph 0 and in mode none *)

\* the last step ran the kernel on an element
Rendered == lastOp[1] = "render"

\* C32: the kernel gives the base position of the element when the morph
\* uniform is 0, in every mode, and when the mode is none, for every morph.
C32_Original ==
  (Rendered /\ (sv.customUniforms.morph = 0 \/ sv.customUniforms.mode = 0)) =>
    lastOp[2].splatCenter = lastOp[2].baseCenter

----------------------------------------------------------------------------
(* C33: the offset of mode explode at the top of the burst *)

\* the kernel ran in mode explode with sceneRadius = 1 and sin(phase * 0.8) = 1
AtBurst ==
  /\ Rendered
  /\ sv.customUniforms.mode = 5
  /\ lastOp[2].sceneRadius = One
  /\ lastOp[2].w1 = One

Abs(x) == IF x < 0 THEN 0 - x ELSE x

\* every component of v is a number
IsNumber(v) == \A i \in 1..3 : v[i] # NaN

\* off has the length len, within the rounding of the fixed point
HasLength(off, len) == IsNumber(off) /\ Abs(Length(off) - len) <= 3

\* off points along dir, within the rounding of the fixed point
PointsAlong(off, dir) ==
  /\ IsNumber(off)
  /\ \A i \in 1..3 : Abs(Cross(off, dir)[i]) <= 2 * (Abs(dir[1]) + Abs(dir[2]) + Abs(dir[3]))
  /\ Dot(off, dir) >= 0
  /\ (off # << 0, 0, 0 >>) => Dot(off, dir) > 0

\* C33 (amended): in mode explode with sceneRadius = 1, at a time where
\* sin(phase * 0.8) = 1, the offset that the kernel adds to the breakup-offset
\* position has the magnitude strength * 0.28 and points along
\* fromCenter + (0.0001, 0.0001, 0.0001), for every element for which this
\* vector is not zero.
C33_Theorem ==
  (AtBurst /\ VAdd(lastOp[2].fromCenter, << 1, 1, 1 >>) # << 0, 0, 0 >>) =>
    /\ HasLength(lastOp[2].explode, Mul(lastOp[2].strength, 2800))
    /\ PointsAlong(lastOp[2].explode, VAdd(lastOp[2].fromCenter, << 1, 1, 1 >>))

\* the element at (0.0001, 0, 0) from the centre at morph 1: the offset has
\* the magnitude 0.28 and its y and z are not 0
C33_Witness ==
  /\ AtBurst
  /\ lastOp[2].fromCenter = << 1, 0, 0 >>
  /\ lastOp[2].strength = One
  /\ lastOp[2].explode[2] > 1000
  /\ lastOp[2].explode[3] > 1000

\* C33 as the specification states it: the offset has the magnitude
\* strength * 0.28 and points along fromCenter.
C33_Original ==
  AtBurst =>
    /\ HasLength(lastOp[2].explode, Mul(lastOp[2].strength, 2800))
    /\ PointsAlong(lastOp[2].explode, lastOp[2].fromCenter)

----------------------------------------------------------------------------
(* C34: the ACTIVE reference designates a live marker *)

\* C34: whenever the ACTIVE marker reference is set, the marker it designates
\* is an element of the live marker list, after every operation: spawn,
\* click, pointer press, tick, reset and the eviction of setPerformanceLevel.
C34_Original == sv.activeTextBubble # 0 => sv.activeTextBubble \in LiveIds(sv)

----------------------------------------------------------------------------
(* C35: no bridge outlives the call that armed it *)

BridgesIdle(s) == ~s.luminanceBridgeActive /\ ~s.scaleBridgeActive

\* the tick of this step is in the reveal window
TickInRevealWindow ==
  InModelRevealWindow(sv.animationMode, TickClock.dispersing, TickClock.morph)

C35_Step ==
  /\ BridgesIdle(sv')
  /\ (IsTick /\ PointCloudTurnsOff) =>
       /\ TickInRevealWindow
       /\ ~TickClock.dispersing
       /\ TickClock.morph <= 3400
       /\ ArmedFrom(AtSwitch, sv)

\* C35: at the end of every tick, and after every setAnimation and load,
\* neither the luminance bridge nor the scale bridge is active: every switch
\* from point cloud to model made by a tick happens inside the reveal window
\* (reassembling, morph <= 0.34), which cancels both bridges in the tick that
\* armed them.
C35_Theorem == [][C35_Step]_vars

\* a reassembling tick has switched to the model and armed the scale bridge
\* from 0.9; both bridges are idle when the tick is over
C35_Witness ==
  /\ lastOp[1] = "tick"
  /\ AssetLoaded(sv)
  /\ sv.animationMode # "none"
  /\ ~sv.pointCloudEnabled
  /\ sv.customUniforms.time > 1600
  /\ sv.customUniforms.morph > 0
  /\ sv.customUniforms.morph <= 3400
  /\ sv.scaleBridgeFrom = 9000
  /\ sv.scaleBridgeElapsed = 0
  /\ BridgesIdle(sv)

----------------------------------------------------------------------------
(* C36: the current viewer is usable *)

\* C36: after any load() call has settled, by resolving or by rejecting for
\* any reason, the current viewer is either null or a viewer that has not
\* been disposed; a tick (which returns at once on a disposed instance)
\* never updates or renders a disposed viewer.
C36_Original == (~sv.disposed /\ sv.viewer # 0) => viewers[sv.viewer].disposals = 0

----------------------------------------------------------------------------
(* C37: the representation at the start of a morph loop *)

C37_Step ==
  (IsMorphTick /\ TickClock.dispersing /\ TickClock.morph < pointCloudEnterMorph)
    => ~sv'.pointCloudEnabled

\* C37: with a mode other than none, after every tick that is dispersing with
\* morph < 0.38, pointCloudEnabled is false, for ticks separated by arbitrary
\* gaps, including gaps that skip the whole reveal window of the previous
\* loop.
C37_Original == [][C37_Step]_vars

----------------------------------------------------------------------------
(* C38: dispose() while a load is in flight *)

\* in this step the asset of load v arrives on a disposed instance
ArrivesAfterDispose(v) ==
  /\ lastOp' = <<"loadSettle", v>>
  /\ loads[v] = "awaitScene"
  /\ loads'[v] # "sceneFailed"
  /\ sv.disposed

C38_Step ==
  \A v \in 1..MaxLoads :
    ArrivesAfterDispose(v) =>
      /\ viewers'[v].disposals = viewers[v].disposals + 1
      /\ loads'[v] = "discarded"
      /\ sv'.viewer # v
      /\ sv' = sv
      /\ sv'.floatingBubbles = << >>

\* C38: if dispose() is called while a load is in flight, then when the asset
\* load later completes the newly loaded viewer is disposed and is never
\* installed as the current viewer, no marker is created and no animation or
\* blend state is changed.
C38_Theorem == [][C38_Step]_vars

\* the asset of the latest load has arrived after dispose(): its viewer has
\* been disposed once and is not the current one
C38_Witness ==
  /\ lastOp[1] = "loadSettle"
  /\ lastOp[2] = sv.loadVersion
  /\ sv.disposed
  /\ loads[sv.loadVersion] = "discarded"
  /\ viewers[sv.loadVersion].disposals = 1
  /\ sv.viewer # sv.loadVersion

----------------------------------------------------------------------------
(* C39: the mode of the viewer and the active stop of the narrative *)

\* C39: in the page driver, whenever showcase mode is off, the animation mode
\* last set on the viewer equals the mode of the active narrative stop; in
\* particular after showcase mode is switched on and then off again without
\* scrolling, the viewer is set back to the mode of the active stop.
C39_Original ==
  (PageRuns /\ ~page.isShowcaseMode /\ page.activeAnimIndex >= 0) =>
    sv.animationMode = ResolveMode(page.animStops[page.activeAnimIndex + 1])

----------------------------------------------------------------------------
(* C40: the performance level on the mobile layout *)

\* C40: in the page driver, whenever the layout is mobile the performance
\* level is low, on the page and on the viewer: no layout change, start or
\* stop of the narrative scroll boost, showcase toggle or measurement window
\* leaves the level high while the layout is mobile.
C40_Theorem ==
  (PageRuns /\ page.isMobileLayout) =>
    (page.performanceLevel = "low" /\ sv.performanceLevel = "low")

\* the third fast second in a row has been measured on the mobile layout, and
\* the level is low
C40_Witness ==
  /\ lastOp[1] = "frame"
  /\ page.isMobileLayout
  /\ page.highFpsWindows >= 3
  /\ page.performanceLevel = "low"
  /\ sv.performanceLevel = "low"
============================================================================
